---- MODULE Spec2Model ----
(***************************************************************************)
(* Verification model of github-vec: the ingestion pipeline                *)
(* (scripts/ingest.ts, scripts/embed.ts) and the README fetcher            *)
(* (scripts/fetch-readmes.ts).                                             *)
(*                                                                         *)
(* Part I  : AsyncBuffer, the bounded producer/consumer queue of the       *)
(*           real-time pipeline (ingest.ts 256-313).                       *)
(* Part II : the asynchronous batch pipeline with its batch-state file,    *)
(*           the provider's batch endpoint and the vector store            *)
(*           (ingest.ts 78-129, 402-677; embed.ts 179-340).                *)
(* Part III: the fetch engine and its dispatcher                           *)
(*           (fetch-readmes.ts 268-402, 404-654).                          *)
(*                                                                         *)
(* JavaScript runs every piece of code between two awaits to completion,   *)
(* so each action below is one such piece: a call up to its first await,   *)
(* or the continuation of a task after the promise it awaits has been      *)
(* resolved.                                                               *)
(***************************************************************************)
EXTENDS Integers, Sequences, FiniteSets, TLC

(***************************************************************************)
(* Bounds of the model.                                                    *)
(***************************************************************************)
\* number of tasks calling push
NumProducers == 2
\* number of tasks calling pull
NumConsumers == 2
\* number of push calls made in all
MaxPushes == 6
\* constructor arguments of the AsyncBuffer (BUFFER_MAX and BATCH_SIZE in the
\* program, scaled down)
MaxSize == 3
BatchSize == 2

\* number of README files on disk (each with distinct content)
NumItems == 101
\* number of times the ingest process is started
MaxRuns == 2
\* number of batch jobs the provider accepts in all
MaxBatches == 3
\* number of items of a batch that may come back without an embedding
MaxFailed == 2

\* --chunk=100 and --parallel=2 on the command line of ingest.ts
BATCH_CHUNK_SIZE == 100
BATCH_PARALLEL == 2
\* qdrant.upsert is called with at most 100 points
UPSERT_SLICE == 100
\* processBatchResults: successRate >= 0.99, items.length < 50
SUCCESS_PERCENT == 99
SMALL_BATCH == 50

\* number of repositories among the origins, and of rows of the work table
NumRepos == 2
TableLen == 3
\* number of rows of a work table that takes two iterations of the while loop
LongTableLen == 4
\* the largest --offset, and the --limit when one is given
MaxOffset == 1
FetchLimit == 2
\* CONCURRENCY and the BATCH_SIZE of main() in fetch-readmes.ts, scaled down
CONCURRENCY == 2
FETCH_BATCH_SIZE == 3
\* const MIN_SIZE = 500, and the length of README_NAMES
MIN_SIZE == 500
README_NAMES == 1

\* the ProxyPool: the lines of the proxy file and the calls of report; the
\* first estimate of a proxy and the penalty of a failed request, in ms
MaxProxyLines == 3
MaxReports == 3
INITIAL_TIME == 1000
BAD_PROXY_PENALTY == 15000

\* the realtime pipeline: the files of the directory, the contents that can
\* be loaded, and the constants of ingest.ts and embed.ts, scaled down
NumFiles == 4
NumContents == 3
FILE_CHUNK_SIZE == 2
MAX_BATCH_CHARS == 30
MIN_TRIMMED == 10
MAX_CONTENT_LEN == 20
\* number of files of an outer chunk that holds more items than the buffer
\* and the workers together (FILE_CHUNK_SIZE is above BUFFER_MAX in ingest.ts)
LongChunkLen == 8
RETRIES == 1

\* the functions: the parts of a repository name
MaxRepoParts == 3
\* the chunks of a run of the batch pipeline, in the study of the writes
NumChunkWorkers == 3
\* const MAX_RETRIES = 5 of fetch-readmes.ts
MAX_RETRIES == 5
\* retries: number = 10, the default of embedRealtime, as it is in embed.ts
DEFAULT_RETRIES == 10

Producers == 1..NumProducers
Consumers == 1..NumConsumers

VARIABLES
  \* ---- Part I: AsyncBuffer ----
  buffer,      \* the AsyncBuffer object: items, waitingProducers,
               \* waitingConsumers, done, and the promises already resolved
               \* whose awaiting task has not run yet
  ppc,         \* producer -> "idle" | "waiting" (inside push, at the await)
  pitem,       \* producer -> the item of its current push call (0: none)
  cpc,         \* consumer -> "idle" | "waiting" (inside pull, at the await)
  ret,         \* consumer -> value returned by its last completed pull
  nextItem,    \* the next fresh item handed to push
  produced,    \* history: items stored by push, in order
  consumed,    \* history: items returned by pull, in order of return
  dropped,     \* history: items whose push returned without storing them
  atFinish,    \* history: tasks blocked at the moment of the first finish()
  lastOp,      \* history: the operation executed by the last step
  \* ---- Part II: batch pipeline ----
  \* durable and external state
  files,       \* ids (content hashes) of the README files on disk
  batches,     \* the provider's batch jobs, batch id = index:
               \*   [items, status, file (output_file_id present), results]
  stateFile,   \* batch-state.json: batch id -> [items, itemIds]
  qdrant,      \* ids of the points in the vector store
  run,         \* number of the current process run
  \* memory of the running process
  pc,          \* where main() is
  exitCode,    \* -1 while running, else the exit code of the process
  existingIds, \* main: the ids fetched from the vector store at start
  items,       \* main: the items loaded for the outer chunk
  state,       \* the BatchState object in memory
  batchIds,    \* resumePendingBatches: Object.keys(state)
  idx,         \* resumePendingBatches: position of the first-pass loop
  toProcess,   \* resumePendingBatches: the batches of the second pass
  processedIds,\* resumePendingBatches: ids in flight
  tasks,       \* the mapper calls of the current pMap
  polled,      \* history: batch ids whose status was polled by pollBatchJob
  \* ---- Part III: fetch engine ----
  \* durable state
  table,       \* the origins of the archive file, by row number
  readmes,     \* README files of the output directory: <<repoFile, branch>>
  markers,     \* error markers: <<status bucket, repoFile>>
  cursor,      \* progress table of .fetch-cache.duckdb: last_id (0: no row)
  fetchRun,    \* number of the current run of the fetcher
  args,        \* the command lines of the runs: [offset, limit] (limit 0: none)
  \* memory of the running fetcher
  offset,      \* --offset
  limit,       \* --limit (0: not given)
  fpc,         \* where main() of the fetcher is
  existingRepos, \* the set preloaded from the output directory
  errorRepos,  \* the set preloaded from the errors directory
  createdDirs, \* stats.createdDirs
  memCursor,   \* progress table of the in-memory database (offset > 0)
  currentId,   \* main: currentId
  urls,        \* main: row numbers of the rows of the current query
  uidx,        \* main: position of the for loop in urls
  batchNo,     \* main: number of the current iteration of the while loop
  woken,       \* the promise the dispatcher awaits has been resolved
  inFlight,    \* main: inFlight, as the rows of its tasks
  ftasks,      \* row -> the fetchAndSave call started for it
  newWrites,   \* history: files and markers created by the current run
  saved,       \* history: the last_id last written to the progress table
  \* ---- Part IV: realtime pipeline ----
  rtFiles,     \* the README files in the order of the directory scan:
               \*   [name (its parts between the "_"), content]
  rtChunk,     \* main: index of the first file of the outer chunk
  rtItems,     \* main: the items loaded for the outer chunk, in order
  rtNext,      \* producer task: the item its for loop hands to push next
  wpc,         \* worker -> where its consumer call is
  wsub,        \* worker -> the sub-batches it has still to embed
  wretries,    \* worker -> the retries left to its embedRealtime call
  stops,       \* history: how the runs so far have ended
  upserted,    \* history: id -> the number of upserts of the point with that
               \* id made by the runRealtimePipeline call that is under way
  \* ---- Part V: functions ----
  arg,         \* the argument of the function a specification applies
  retval,      \* <<v>>: the function has returned v; <<>>: it was not called
  \* ---- Part VI: the writes of the batch-state file ----
  sfState,     \* runBatchPipeline: the batch ids of the state object
  sfFile,      \* batch-state.json: the batch ids of its content
  sfWrites,    \* the Bun.write calls in flight: [no, by, content]
  sfpc,        \* chunk worker -> where it is
  sfIssued     \* history: the number of writes issued

bufVars == <<buffer, ppc, pitem, cpc, ret, nextItem, produced, consumed,
             dropped, atFinish, lastOp>>

memVars == <<pc, exitCode, existingIds, items, state, batchIds, idx,
             toProcess, processedIds, tasks>>

batchVars == <<files, batches, stateFile, qdrant, run, pc, exitCode,
               existingIds, items, state, batchIds, idx, toProcess, processedIds,
               tasks, polled>>

fetchVars == <<table, readmes, markers, cursor, fetchRun, args, offset,
               limit, fpc, existingRepos, errorRepos, createdDirs, memCursor,
               currentId, urls, uidx, batchNo, woken, inFlight, ftasks,
               newWrites, saved>>

rtVars == <<rtFiles, rtChunk, rtItems, rtNext, wpc, wsub, wretries, stops,
           upserted>>

\* what the steps of the batch pipeline, of the buffer, and of the fetcher
\* leave alone
funVars == <<arg, retval>>

sfVars == <<sfState, sfFile, sfWrites, sfpc, sfIssued>>

notBatchVars == <<bufVars, fetchVars, rtVars, funVars, sfVars>>
notBufVars == <<batchVars, fetchVars, rtVars, funVars, sfVars>>
notFetchVars == <<bufVars, batchVars, rtVars, funVars, sfVars>>
notFunVars == <<bufVars, batchVars, fetchVars, rtVars, sfVars>>
notSfVars == <<bufVars, batchVars, fetchVars, rtVars, funVars>>

vars == <<buffer, ppc, pitem, cpc, ret, nextItem, produced, consumed,
          dropped, atFinish, lastOp,
          files, batches, stateFile, qdrant, run, pc, exitCode,
          existingIds, items, state, batchIds, idx, toProcess, processedIds,
          tasks, polled,
          table, readmes, markers, cursor, fetchRun, args, offset,
          limit, fpc, existingRepos, errorRepos, createdDirs, memCursor,
          currentId, urls, uidx, batchNo, woken, inFlight, ftasks,
          newWrites, saved,
          rtFiles, rtChunk, rtItems, rtNext, wpc, wsub, wretries, stops,
          upserted, arg, retval,
          sfState, sfFile, sfWrites, sfpc, sfIssued>>

(***************************************************************************)
(* Part I.  AsyncBuffer                                                    *)
(***************************************************************************)

Range(f) == {f[i] : i \in DOMAIN f}

\* The value of pull(): null, or a batch (possibly the empty batch []).
Null == [isNull |-> TRUE, batch |-> <<>>]
Batch(s) == [isNull |-> FALSE, batch |-> s]

\* items.splice(0, batchSize): the removed prefix and what is left
SplicePrefix(s) == SubSeq(s, 1, IF Len(s) < BatchSize THEN Len(s) ELSE BatchSize)
\* what is left as it would be if the items were taken from the end
SpliceRestKeepsHead(s) == SubSeq(s, 1, Len(s) - (IF Len(s) < BatchSize THEN Len(s) ELSE BatchSize))
SpliceRest(s) == SubSeq(s, (IF Len(s) < BatchSize THEN Len(s) ELSE BatchSize) + 1, Len(s))

\* releaseProducers() as it would be if it resolved no promise
releaseNone(b) == b

\* private releaseProducers(): resolve the promises of waiting producers
\* while there is room
RECURSIVE releaseProducers(_)
releaseProducers(b) ==
  IF Len(b.waitingProducers) > 0 /\ Len(b.items) < MaxSize
  THEN releaseProducers([b EXCEPT
         !.waitingProducers = Tail(@),
         !.resolvedProducers = @ \cup {Head(b.waitingProducers)}])
  ELSE b

\* tryFlush() as it would be if it handed over whatever the buffer holds
tryFlushAnyLength(b) ==
  IF Len(b.items) >= 1 /\ Len(b.waitingConsumers) > 0
  THEN releaseProducers([b EXCEPT
         !.items = SpliceRest(@),
         !.waitingConsumers = Tail(@),
         !.resolvedConsumers = (Head(b.waitingConsumers) :> SplicePrefix(b.items)) @@ @])
  ELSE b

\* private tryFlush(): hand a full batch to the first waiting consumer
tryFlush(b) ==
  IF Len(b.items) >= BatchSize /\ Len(b.waitingConsumers) > 0
  THEN releaseProducers([b EXCEPT
         !.items = SpliceRest(@),
         !.waitingConsumers = Tail(@),
         !.resolvedConsumers = (Head(b.waitingConsumers) :> SplicePrefix(b.items)) @@ @])
  ELSE b

\* drain() as it would be without the end-of-stream case
drainValueNeverNull(b) ==
  IF Len(b.items) = 0
  THEN Batch(<<>>)
  ELSE Batch(SplicePrefix(b.items))

\* private drain(): its return value ...
drainValue(b) ==
  IF Len(b.items) = 0
  THEN (IF b.done THEN Null ELSE Batch(<<>>))
  ELSE Batch(SplicePrefix(b.items))

\* drain() as it would be with slice (a copy) in place of splice
drainBufferSlice(b) ==
  IF Len(b.items) = 0
  THEN b
  ELSE releaseProducers(b)

\* ... and its effect on the buffer
drainBuffer(b) ==
  IF Len(b.items) = 0
  THEN b
  ELSE releaseProducers([b EXCEPT !.items = SpliceRest(@)])

\* finish() as it would be if it woke the first waiting consumer only
wakeFirst(b) ==
  IF Len(b.waitingConsumers) = 0 THEN b
  ELSE [b EXCEPT
         !.waitingConsumers = <<>>,
         !.resolvedConsumers = (Head(b.waitingConsumers) :> <<>>) @@ @]

\* finish(): the forEach wakes every waiting consumer with []
RECURSIVE wakeAll(_)
wakeAll(b) ==
  IF Len(b.waitingConsumers) = 0 THEN b
  ELSE wakeAll([b EXCEPT
         !.waitingConsumers = Tail(@),
         !.resolvedConsumers = (Head(b.waitingConsumers) :> <<>>) @@ @])

finish(b) == releaseProducers(wakeAll([b EXCEPT !.done = TRUE]))

\* push(item) as it would be without the test of done after the loop
pushFromNoDoneTest(p, item, b) ==
  IF Len(b.items) >= MaxSize /\ ~b.done
  THEN /\ buffer' = [b EXCEPT !.waitingProducers = Append(@, p)]
       /\ ppc' = [ppc EXCEPT ![p] = "waiting"]
       /\ pitem' = [pitem EXCEPT ![p] = item]
       /\ UNCHANGED <<produced, dropped>>
  ELSE /\ buffer' = tryFlush([b EXCEPT !.items = Append(@, item)])
       /\ ppc' = [ppc EXCEPT ![p] = "idle"]
       /\ pitem' = [pitem EXCEPT ![p] = 0]
       /\ produced' = Append(produced, item)
       /\ UNCHANGED dropped

\* push(item) from the test of its while loop on, run by producer p on buffer b
\* (b is the buffer after the promise p awaited, if any, has been consumed)
pushFrom(p, item, b) ==
  IF Len(b.items) >= MaxSize /\ ~b.done
  THEN \* await new Promise(resolve => waitingProducers.push(resolve))
       /\ buffer' = [b EXCEPT !.waitingProducers = Append(@, p)]
       /\ ppc' = [ppc EXCEPT ![p] = "waiting"]
       /\ pitem' = [pitem EXCEPT ![p] = item]
       /\ UNCHANGED <<produced, dropped>>
  ELSE IF b.done
  THEN \* if (this.done) return
       /\ buffer' = b
       /\ ppc' = [ppc EXCEPT ![p] = "idle"]
       /\ pitem' = [pitem EXCEPT ![p] = 0]
       /\ dropped' = dropped \cup {item}
       /\ UNCHANGED produced
  ELSE \* this.items.push(item); this.tryFlush()
       /\ buffer' = tryFlush([b EXCEPT !.items = Append(@, item)])
       /\ ppc' = [ppc EXCEPT ![p] = "idle"]
       /\ pitem' = [pitem EXCEPT ![p] = 0]
       /\ produced' = Append(produced, item)
       /\ UNCHANGED dropped

\* a task calls push(item)
PushCall(p) ==
  /\ ppc[p] = "idle"
  /\ nextItem <= MaxPushes
  /\ pushFrom(p, nextItem, buffer)
  /\ nextItem' = nextItem + 1
  /\ lastOp' = [op |-> "push", who |-> p]
  /\ UNCHANGED notBufVars
  /\ UNCHANGED <<cpc, ret, consumed, atFinish>>

\* push as it would be with `if` in place of `while`: a woken producer stores
\* its item without testing the length again
PushResumeNoRetest(p) ==
  /\ ppc[p] = "waiting"
  /\ p \in buffer.resolvedProducers
  /\ buffer' = tryFlush([buffer EXCEPT !.resolvedProducers = @ \ {p},
                                       !.items = Append(@, pitem[p])])
  /\ ppc' = [ppc EXCEPT ![p] = "idle"]
  /\ pitem' = [pitem EXCEPT ![p] = 0]
  /\ produced' = Append(produced, pitem[p])
  /\ lastOp' = [op |-> "pushResume", who |-> p]
  /\ UNCHANGED notBufVars
  /\ UNCHANGED <<cpc, ret, nextItem, consumed, dropped, atFinish>>

\* the promise a producer awaits has been resolved: push goes round its loop
PushResume(p) ==
  /\ ppc[p] = "waiting"
  /\ p \in buffer.resolvedProducers
  /\ pushFrom(p, pitem[p], [buffer EXCEPT !.resolvedProducers = @ \ {p}])
  /\ lastOp' = [op |-> "pushResume", who |-> p]
  /\ UNCHANGED notBufVars
  /\ UNCHANGED <<cpc, ret, nextItem, consumed, atFinish>>

\* pull() from the test of its while loop on, run by consumer c on buffer b
pullFrom(c, b) ==
  IF Len(b.items) < BatchSize /\ ~b.done
  THEN \* await new Promise(resolve => waitingConsumers.push(resolve))
       /\ buffer' = [b EXCEPT !.waitingConsumers = Append(@, c)]
       /\ cpc' = [cpc EXCEPT ![c] = "waiting"]
       /\ UNCHANGED <<ret, consumed>>
  ELSE \* return this.drain()
       /\ buffer' = drainBuffer(b)
       /\ cpc' = [cpc EXCEPT ![c] = "idle"]
       /\ ret' = [ret EXCEPT ![c] = drainValue(b)]
       /\ consumed' = consumed \o drainValue(b).batch

\* a task calls pull()
PullCall(c) ==
  /\ cpc[c] = "idle"
  /\ pullFrom(c, buffer)
  /\ lastOp' = [op |-> "pull", who |-> c]
  /\ UNCHANGED notBufVars
  /\ UNCHANGED <<ppc, pitem, nextItem, produced, dropped, atFinish>>

\* the continuation of pull() after its promise was resolved with `batch`
pullAfterAwait(c, batch, b) ==
  IF Len(batch) > 0
  THEN \* if (batch.length > 0) return batch
       /\ buffer' = b
       /\ cpc' = [cpc EXCEPT ![c] = "idle"]
       /\ ret' = [ret EXCEPT ![c] = Batch(batch)]
       /\ consumed' = consumed \o batch
  ELSE IF b.done /\ Len(b.items) = 0
  THEN \* if (this.done && this.items.length === 0) return null
       /\ buffer' = b
       /\ cpc' = [cpc EXCEPT ![c] = "idle"]
       /\ ret' = [ret EXCEPT ![c] = Null]
       /\ UNCHANGED consumed
  ELSE pullFrom(c, b)

\* the promise a consumer awaits has been resolved: pull continues
PullResume(c) ==
  /\ cpc[c] = "waiting"
  /\ c \in DOMAIN buffer.resolvedConsumers
  /\ pullAfterAwait(c, buffer.resolvedConsumers[c],
       [buffer EXCEPT !.resolvedConsumers =
          [d \in (DOMAIN @) \ {c} |-> @[d]]])
  /\ lastOp' = [op |-> "pullResume", who |-> c]
  /\ UNCHANGED notBufVars
  /\ UNCHANGED <<ppc, pitem, nextItem, produced, dropped, atFinish>>

\* tasks suspended at an await of push / pull whose promise is unresolved
BlockedProducers == {p \in Producers : ppc[p] = "waiting" /\ p \notin buffer.resolvedProducers}
BlockedConsumers == {c \in Consumers : cpc[c] = "waiting" /\ c \notin DOMAIN buffer.resolvedConsumers}

\* a task calls finish()
Finish ==
  /\ buffer' = finish(buffer)
  /\ atFinish' = IF buffer.done THEN atFinish
                 ELSE [producers |-> BlockedProducers, consumers |-> BlockedConsumers,
                       items |-> Len(buffer.items)]
  /\ lastOp' = [op |-> "finish", who |-> 0]
  /\ UNCHANGED notBufVars
  /\ UNCHANGED <<ppc, pitem, cpc, ret, nextItem, produced, consumed, dropped>>

(***************************************************************************)
(* Part II.  Batch pipeline                                                *)
(*                                                                         *)
(* An item is identified by its id (a function of its content).  The       *)
(* loaded items are kept in ascending order of id, so a chunk is a run of  *)
(* consecutive items of that order.  The whole-file rewrite of the state   *)
(* file is one step.                                                       *)
(***************************************************************************)

\* the ids the provider gives to batch jobs, and the mappers of a pMap
BatchIds == 1..MaxBatches
TaskIds == 1..MaxBatches

NoEntries == <<>>

\* state[batchId] = entry
WithEntry(st, b, e) == (b :> e) @@ st
\* delete state[batchId]
WithoutEntry(st, b) == [x \in (DOMAIN st) \ {b} |-> st[x]]

\* position of x in the ascending order of S
Rank(x, S) == Cardinality({y \in S : y <= x})

\* the ids of a set in ascending order
RECURSIVE Ascending(_)
Ascending(S) ==
  IF S = {} THEN <<>>
  ELSE LET m == CHOOSE x \in S : \A y \in S : x <= y
       IN <<m>> \o Ascending(S \ {m})

\* remainingItems.slice(i, i + BATCH_CHUNK_SIZE) for the j-th chunk
Chunk(j, S) ==
  IF Cardinality(S) <= BATCH_CHUNK_SIZE THEN S
  ELSE {x \in S : (Rank(x, S) - 1) \div BATCH_CHUNK_SIZE = j - 1}
NumChunks(S) == (Cardinality(S) + BATCH_CHUNK_SIZE - 1) \div BATCH_CHUNK_SIZE

\* pMap(list, mapper, {concurrency: BATCH_PARALLEL}): the first mappers are
\* called at once, the others wait for a free slot
Mappers(list, first) ==
  [i \in 1..Len(list) |->
     [pc |-> IF i <= BATCH_PARALLEL THEN first[i] ELSE "pending",
      first |-> first[i],
      batchId |-> list[i].batchId,
      items |-> list[i].items,
      results |-> {},
      sent |-> {}]]

\* a mapper has returned: pMap calls the next waiting one
MapperDone(ts, t) ==
  LET done == [ts EXCEPT ![t].pc = "done"]
      waiting == {i \in DOMAIN ts : ts[i].pc = "pending"}
  IN IF waiting = {} THEN done
     ELSE LET n == CHOOSE i \in waiting : \A k \in waiting : i <= k
          IN [done EXCEPT ![n].pc = done[n].first]

AllDone(ts) == \A i \in DOMAIN ts : ts[i].pc = "done"

\* processBatchResults, line 103: the results whose id is in itemsMap
toUpsert(results, its) == {id \in results : id \in its}

\* processBatchResults as it would be with > in place of >=
RemovesEntryStrict(k, n) ==
  (k * 100 > SUCCESS_PERCENT * n) \/ (n < SMALL_BATCH)

\* processBatchResults, lines 116-118: successRate >= 0.99 || isSmallBatch,
\* with k = toUpsert.length and n = items.length (k / n >= 0.99 in floating
\* point is k * 100 >= 99 * n for these sizes)
RemovesEntry(k, n) ==
  (k * 100 >= SUCCESS_PERCENT * n) \/ (n < SMALL_BATCH)

Terminal == {"failed", "expired", "cancelled"}

\* main().catch: an error other than BudgetExhaustedError ends the process
\* with code 1
Throw ==
  /\ pc' = "exited"
  /\ exitCode' = 1

\* main().catch as it would be if it made no difference between the errors
ThrowBudgetAsFailure ==
  /\ pc' = "exited"
  /\ exitCode' = 1

\* main().catch, lines 680-684: a BudgetExhaustedError ends the process with
\* code 0
ThrowBudget ==
  /\ pc' = "exited"
  /\ exitCode' = 0

\* the answer to the request for the result file: the file, 402, or another
\* status that is not ok
DownloadAnswers == {"ok", "402", "error"}

\* embed.ts 202-209 and 290-297: what the request for the result file of
\* the batch of mapper t leads to
downloadResults(t, answer) ==
  IF answer = "ok"
  THEN /\ tasks' = [tasks EXCEPT ![t].pc = "upsert",
                                 ![t].results = batches[tasks[t].batchId].results]
       /\ UNCHANGED <<pc, exitCode>>
  ELSE IF answer = "402"
  THEN /\ tasks' = [tasks EXCEPT ![t].pc = "budget"]
       /\ ThrowBudget
  ELSE /\ tasks' = [tasks EXCEPT ![t].pc = "failed"]
       /\ Throw

\* ---- main and resumePendingBatches -------------------------------------

\* main(): ensureCollection, fetchExistingIds, loadItems of the outer chunk;
\* the pipeline is run only when there is a new item
MainLoad ==
  /\ pc = "start"
  /\ existingIds' = qdrant
  /\ items' = files \ qdrant
  /\ IF files \ qdrant = {}
     THEN pc' = "done" /\ exitCode' = 0
     ELSE pc' = "resume" /\ UNCHANGED exitCode
  /\ UNCHANGED <<files, batches, stateFile, qdrant, run, state, batchIds, idx,
                 toProcess, processedIds, tasks, polled>>
  /\ UNCHANGED notBatchVars

\* resumePendingBatches, lines 402-413: load the state file
ResumeLoad ==
  /\ pc = "resume"
  /\ state' = stateFile
  /\ batchIds' = Ascending(DOMAIN stateFile)
  /\ processedIds' = {}
  /\ idx' = 1
  /\ toProcess' = <<>>
  /\ tasks' = <<>>
  /\ pc' = IF DOMAIN stateFile = {} THEN "filter" ELSE "check"
  /\ UNCHANGED <<files, batches, stateFile, qdrant, run, exitCode, existingIds,
                 items, polled>>
  /\ UNCHANGED notBatchVars

\* the end of the first pass as it would be if resumePendingBatches
\* returned without its second pass
AfterFirstPassReturns(tp) ==
  pc' = "filter" /\ tasks' = <<>>

\* the end of the first pass: return, or start the pMap of the second pass
AfterFirstPass(tp) ==
  IF Len(tp) = 0
  THEN pc' = "filter" /\ tasks' = <<>>
  ELSE /\ pc' = "resumeMap"
       /\ tasks' = Mappers([i \in 1..Len(tp) |->
                              [batchId |-> tp[i].batchId,
                               items |-> state[tp[i].batchId].items]],
                           [i \in 1..Len(tp) |->
                              IF tp[i].fileId THEN "download" ELSE "poll"])

\* first pass as it would be if a completed batch were treated like a
\* terminal one
ResumeCheckDropsCompleted ==
  /\ pc = "check"
  /\ LET b == batchIds[idx]
         status == batches[b].status
         tp == IF status \in {"in_progress", "validating"}
               THEN Append(toProcess, [batchId |-> b, fileId |-> FALSE])
               ELSE toProcess
     IN /\ IF status \in {"in_progress", "validating"}
           THEN /\ processedIds' = processedIds \cup state[b].items
                /\ UNCHANGED <<state, stateFile>>
           ELSE /\ state' = WithoutEntry(state, b)
                /\ stateFile' = WithoutEntry(state, b)
                /\ UNCHANGED processedIds
        /\ toProcess' = tp
        /\ idx' = idx + 1
        /\ IF idx = Len(batchIds)
           THEN AfterFirstPass(tp)
           ELSE UNCHANGED <<pc, tasks>>
  /\ UNCHANGED <<files, batches, qdrant, run, exitCode, existingIds, items,
                 batchIds, polled>>
  /\ UNCHANGED notBatchVars

\* resumePendingBatches, lines 418-455: one round of the first pass, from
\* getBatchStatus of the batch to the save that may follow; after the last
\* round the second pass starts
ResumeCheck ==
  /\ pc = "check"
  /\ LET b == batchIds[idx]
         status == batches[b].status
         legacy == state[b].items = {}
         downloadable == status = "completed" /\ batches[b].file
         pending == status \in {"in_progress", "validating"}
         tp == IF legacy THEN toProcess
               ELSE IF downloadable
               THEN Append(toProcess, [batchId |-> b, fileId |-> TRUE])
               ELSE IF pending
               THEN Append(toProcess, [batchId |-> b, fileId |-> FALSE])
               ELSE toProcess
     IN /\ IF legacy
           THEN /\ IF state[b].itemIds
                   THEN /\ state' = WithoutEntry(state, b)
                        /\ stateFile' = WithoutEntry(state, b)
                   ELSE UNCHANGED <<state, stateFile>>
                /\ UNCHANGED processedIds
           ELSE IF downloadable \/ pending
           THEN /\ processedIds' = processedIds \cup state[b].items
                /\ UNCHANGED <<state, stateFile>>
           ELSE /\ state' = WithoutEntry(state, b)
                /\ stateFile' = WithoutEntry(state, b)
                /\ UNCHANGED processedIds
        /\ toProcess' = tp
        /\ idx' = idx + 1
        /\ IF idx = Len(batchIds)
           THEN AfterFirstPass(tp)
           ELSE UNCHANGED <<pc, tasks>>
  /\ UNCHANGED <<files, batches, qdrant, run, exitCode, existingIds, items,
                 batchIds, polled>>
  /\ UNCHANGED notBatchVars

\* ---- the mappers of the two pMap calls ---------------------------------

\* what follows the pMap: resumePendingBatches returns to runBatchPipeline,
\* or runBatchPipeline returns to main, whose loop ends
AfterMapper(ts) ==
  IF AllDone(ts)
  THEN IF pc = "resumeMap"
       THEN pc' = "filter" /\ UNCHANGED exitCode
       ELSE pc' = "done" /\ exitCode' = 0
  ELSE UNCHANGED <<pc, exitCode>>

\* downloadBatchResults (embed.ts 201-249): the rows with an embedding
Download(t) ==
  /\ t \in DOMAIN tasks
  /\ pc = "resumeMap"
  /\ tasks[t].pc = "download"
  /\ \E answer \in DownloadAnswers : downloadResults(t, answer)
  /\ UNCHANGED <<files, batches, stateFile, qdrant, run,
                 existingIds, items, state, batchIds, idx, toProcess,
                 processedIds, polled>>
  /\ UNCHANGED notBatchVars

\* pollBatchJob as it would be if its test of the status left out expired
PollForgetsExpired(t) ==
  /\ t \in DOMAIN tasks
  /\ pc \in {"resumeMap", "chunkMap"}
  /\ tasks[t].pc = "poll"
  /\ LET b == tasks[t].batchId
         status == batches[b].status
     IN /\ polled' = polled \cup {b}
        /\ IF status = "completed"
           THEN IF batches[b].file
                THEN \E answer \in DownloadAnswers : downloadResults(t, answer)
                ELSE \* throw new Error("No output file ID")
                     Throw /\ UNCHANGED tasks
           ELSE IF status \in {"failed", "cancelled"}
           THEN Throw /\ UNCHANGED tasks
           ELSE UNCHANGED <<tasks, pc, exitCode>>
  /\ UNCHANGED <<files, batches, stateFile, qdrant, run, existingIds, items,
                 state, batchIds, idx, toProcess, processedIds>>
  /\ UNCHANGED notBatchVars

\* pollBatchJob (embed.ts 268-340): one getBatchStatus and what follows it:
\* the download when completed, an error when terminal, else the sleep
Poll(t) ==
  /\ t \in DOMAIN tasks
  /\ pc \in {"resumeMap", "chunkMap"}
  /\ tasks[t].pc = "poll"
  /\ LET b == tasks[t].batchId
         status == batches[b].status
     IN /\ polled' = polled \cup {b}
        /\ IF status = "completed"
           THEN IF batches[b].file
                THEN \E answer \in DownloadAnswers : downloadResults(t, answer)
                ELSE \* throw new Error("No output file ID")
                     Throw /\ UNCHANGED tasks
           ELSE IF status \in Terminal
           THEN Throw /\ UNCHANGED tasks
           ELSE UNCHANGED <<tasks, pc, exitCode>>
  /\ UNCHANGED <<files, batches, stateFile, qdrant, run, existingIds, items,
                 state, batchIds, idx, toProcess, processedIds>>
  /\ UNCHANGED notBatchVars

\* the points of the next qdrant.upsert call of processBatchResults
UpsertSlice(t) ==
  LET rest == toUpsert(tasks[t].results, tasks[t].items) \ tasks[t].sent
  IN IF Cardinality(rest) <= UPSERT_SLICE THEN rest
     ELSE {id \in rest : Rank(id, rest) <= UPSERT_SLICE}

\* processBatchResults, lines 100-113: one round of the upsert loop
Upsert(t) ==
  /\ t \in DOMAIN tasks
  /\ pc \in {"resumeMap", "chunkMap"}
  /\ tasks[t].pc = "upsert"
  /\ qdrant' = qdrant \cup UpsertSlice(t)
  /\ tasks' = [tasks EXCEPT
       ![t].sent = @ \cup UpsertSlice(t),
       ![t].pc = IF toUpsert(tasks[t].results, tasks[t].items)
                      \subseteq (tasks[t].sent \cup UpsertSlice(t))
                 THEN "retain" ELSE "upsert"]
  /\ UNCHANGED <<files, batches, stateFile, run, pc, exitCode,
                 existingIds, items, state, batchIds, idx, toProcess,
                 processedIds, polled>>
  /\ UNCHANGED notBatchVars

\* processBatchResults, lines 115-128: the retention rule, and the return of
\* the mapper
Retain(t) ==
  /\ t \in DOMAIN tasks
  /\ pc \in {"resumeMap", "chunkMap"}
  /\ tasks[t].pc = "retain"
  /\ LET b == tasks[t].batchId
         k == Cardinality(toUpsert(tasks[t].results, tasks[t].items))
         n == Cardinality(tasks[t].items)
     IN IF RemovesEntry(k, n)
        THEN /\ state' = WithoutEntry(state, b)
             /\ stateFile' = WithoutEntry(state, b)
        ELSE UNCHANGED <<state, stateFile>>
  /\ tasks' = MapperDone(tasks, t)
  /\ AfterMapper(MapperDone(tasks, t))
  /\ UNCHANGED <<files, batches, qdrant, run, existingIds, items, batchIds,
                 idx, toProcess, processedIds, polled>>
  /\ UNCHANGED notBatchVars

\* ---- runBatchPipeline ---------------------------------------------------

\* runBatchPipeline, lines 522-558: fetchExistingIds, the remaining items,
\* the chunks, loadBatchState, and the start of the pMap over the chunks
Filter ==
  /\ pc = "filter"
  /\ LET remainingItems == (items \ qdrant) \ processedIds
         chunks == [j \in 1..NumChunks(remainingItems) |->
                      [batchId |-> 0, items |-> Chunk(j, remainingItems)]]
     IN IF remainingItems = {}
        THEN /\ pc' = "done"
             /\ exitCode' = 0
             /\ UNCHANGED <<state, tasks>>
        ELSE /\ pc' = "chunkMap"
             /\ state' = stateFile
             /\ tasks' = Mappers(chunks, [j \in 1..Len(chunks) |-> "submit"])
             /\ UNCHANGED exitCode
  /\ UNCHANGED <<files, batches, stateFile, qdrant, run, existingIds, items,
                 batchIds, idx, toProcess, processedIds, polled>>
  /\ UNCHANGED notBatchVars

\* the chunk worker as it would be if it polled before saving the state
SubmitThenPoll(t) ==
  /\ t \in DOMAIN tasks
  /\ pc = "chunkMap"
  /\ tasks[t].pc = "submit"
  /\ Len(batches) < MaxBatches
  /\ batches' = Append(batches, [items |-> tasks[t].items, status |-> "validating",
                                 file |-> FALSE, results |-> {}])
  /\ tasks' = [tasks EXCEPT ![t].pc = "poll", ![t].batchId = Len(batches) + 1]
  /\ UNCHANGED <<files, stateFile, qdrant, run, pc, exitCode, existingIds,
                 items, state, batchIds, idx, toProcess, processedIds, polled>>
  /\ UNCHANGED notBatchVars

\* submitBatchJob (embed.ts 252-265): the manifest is uploaded and the batch
\* job created at the provider
Submit(t) ==
  /\ t \in DOMAIN tasks
  /\ pc = "chunkMap"
  /\ tasks[t].pc = "submit"
  /\ Len(batches) < MaxBatches
  /\ batches' = Append(batches, [items |-> tasks[t].items, status |-> "validating",
                                 file |-> FALSE, results |-> {}])
  /\ tasks' = [tasks EXCEPT ![t].pc = "save", ![t].batchId = Len(batches) + 1]
  /\ UNCHANGED <<files, stateFile, qdrant, run, pc, exitCode, existingIds,
                 items, state, batchIds, idx, toProcess, processedIds, polled>>
  /\ UNCHANGED notBatchVars

\* runBatchPipeline, lines 563-569: the entry is put in the state and the
\* state file rewritten
Save(t) ==
  /\ t \in DOMAIN tasks
  /\ pc = "chunkMap"
  /\ tasks[t].pc = "save"
  /\ state' = WithEntry(state, tasks[t].batchId,
                        [items |-> tasks[t].items, itemIds |-> FALSE])
  /\ stateFile' = WithEntry(state, tasks[t].batchId,
                            [items |-> tasks[t].items, itemIds |-> FALSE])
  /\ tasks' = [tasks EXCEPT ![t].pc = "poll"]
  /\ UNCHANGED <<files, batches, qdrant, run, pc, exitCode, existingIds,
                 items, batchIds, idx, toProcess, processedIds, polled>>
  /\ UNCHANGED notBatchVars

\* ---- the provider and the operator --------------------------------------

\* the results of a completed batch: all items but the f last ones
RECURSIVE ResultsWithout(_, _)
ResultsWithout(its, f) ==
  IF f = 0 \/ its = {} THEN its
  ELSE ResultsWithout(its \ {CHOOSE x \in its : \A y \in its : y <= x}, f - 1)

\* validating -> in_progress
ProviderStart(b) ==
  /\ b \in DOMAIN batches
  /\ batches[b].status = "validating"
  /\ batches' = [batches EXCEPT ![b].status = "in_progress"]
  /\ UNCHANGED <<files, stateFile, qdrant, run, polled>>
  /\ UNCHANGED memVars
  /\ UNCHANGED notBatchVars

\* in_progress -> completed, with an output file holding the results, or
\* with no output file when no request succeeded
ProviderComplete(b) ==
  /\ b \in DOMAIN batches
  /\ batches[b].status = "in_progress"
  /\ \E f \in 0..MaxFailed, hasFile \in BOOLEAN :
       /\ f <= Cardinality(batches[b].items)
       /\ ~hasFile => f = 0
       /\ batches' = [batches EXCEPT
            ![b].status = "completed",
            ![b].file = hasFile,
            ![b].results = IF hasFile THEN ResultsWithout(batches[b].items, f)
                           ELSE {}]
  /\ UNCHANGED <<files, stateFile, qdrant, run, polled>>
  /\ UNCHANGED memVars
  /\ UNCHANGED notBatchVars

\* a batch that is not completed fails, expires or is cancelled
ProviderEnd(b) ==
  /\ b \in DOMAIN batches
  /\ batches[b].status \in {"validating", "in_progress"}
  /\ \E s \in Terminal : batches' = [batches EXCEPT ![b].status = s]
  /\ UNCHANGED <<files, stateFile, qdrant, run, polled>>
  /\ UNCHANGED memVars
  /\ UNCHANGED notBatchVars

\* the memory of a process that starts
FreshMemory ==
  /\ pc' = "start"
  /\ exitCode' = -1
  /\ existingIds' = {}
  /\ items' = {}
  /\ state' = NoEntries
  /\ batchIds' = <<>>
  /\ idx' = 1
  /\ toProcess' = <<>>
  /\ processedIds' = {}
  /\ tasks' = <<>>

\* the running process is killed, and started again
Kill ==
  /\ pc \notin {"done", "exited"}
  /\ run < MaxRuns
  /\ run' = run + 1
  /\ FreshMemory
  /\ UNCHANGED <<files, batches, stateFile, qdrant, polled>>
  /\ UNCHANGED notBatchVars

\* the process has ended, and is started again
Rerun ==
  /\ pc \in {"done", "exited"}
  /\ run < MaxRuns
  /\ run' = run + 1
  /\ FreshMemory
  /\ UNCHANGED <<files, batches, stateFile, qdrant, polled>>
  /\ UNCHANGED notBatchVars

(***************************************************************************)
(* Part III.  Fetch engine (fetch-readmes.ts, the script with main())      *)
(*                                                                         *)
(* An origin is a row of the work table.  Origin 0 is a URL that does not  *)
(* match github.com/<owner>/<repo>; origins 1..NumRepos are repositories,  *)
(* named by their repoFile; origin NumRepos+1 is a repository whose        *)
(* repoFile is longer than 200 characters.  What the raw host answers to a *)
(* request is not in the hands of the program: every answer is possible    *)
(* for every request.                                                      *)
(***************************************************************************)

NoMatchUrl == 0
Repos == 1..NumRepos
LongName == NumRepos + 1
Origins == {NoMatchUrl} \cup Repos \cup {LongName}

\* const BRANCHES = ["master", "main"]; README_NAMES has one entry
BRANCHES == <<"master", "main">>

\* --offset and --limit of a run (limit 0: no --limit)
Offsets == 0..MaxOffset
Limits == {0, FetchLimit}

\* What fetchWithRetry returns for one candidate: an error (status 0 here),
\* or a response whose status is not one of the retried ones, with the
\* length of its body.
Responses ==
  {[status |-> 0, len |-> 0], [status |-> 403, len |-> 0],
   [status |-> 404, len |-> 0], [status |-> 451, len |-> 0]}
  \cup {[status |-> 200, len |-> n] : n \in {0, MIN_SIZE - 1, MIN_SIZE}}

\* the directory of a marker: 404_<number of README names>, or the status
StatusKey(status) ==
  IF status = 404 THEN "404_" \o ToString(README_NAMES) ELSE ToString(status)

\* the rows of the work table of this run: all of them, or for offset > 0
\* the slice  id > offset AND id <= sliceEnd
TableRows ==
  IF offset > 0
  THEN {i \in 1..Len(table) :
          i > offset /\ (limit # 0 => i <= offset + limit)}
  ELSE 1..Len(table)

\* SELECT COUNT(*) FROM table
TableCount == Cardinality(TableRows)

\* const endId = limit ? offset + limit : tableCount
EndId == IF limit # 0 THEN offset + limit ELSE TableCount

\* SELECT origin FROM table WHERE id > cur ORDER BY id LIMIT lim, as row numbers
QueryRows(cur, lim) ==
  LET S == {i \in TableRows : i > cur}
      n == IF lim < Cardinality(S) THEN lim ELSE Cardinality(S)
  IN [k \in 1..n |-> CHOOSE i \in S : Cardinality({j \in S : j < i}) = k - 1]

\* fetchAndSave(url) up to its first await (or its return), for an origin o
\* dispatched in iteration b of the while loop
fetchAndSaveCall(o, b) ==
  LET call == [origin |-> o, batch |-> b, pc |-> "fetch", branch |-> 1,
               lastStatus |-> 404, found |-> FALSE, write |-> <<>>,
               sawMarker |-> (\E m \in markers : m[2] = o),
               requested |-> FALSE, body |-> -1, answers |-> <<>>,
               outcome |-> "none"]
  IN IF o = NoMatchUrl
     THEN \* if (!match) { stats.errors.set(0, ...); return }
          [call EXCEPT !.pc = "finished", !.outcome = "nomatch"]
     ELSE IF o = LongName
     THEN \* if (repoFile.length > 200) { stats.skipped++; return }
          [call EXCEPT !.pc = "finished", !.outcome = "long"]
     ELSE IF o \in existingRepos \/ o \in errorRepos
     THEN [call EXCEPT !.pc = "finished", !.outcome = "skip"]
     ELSE IF existingRepos = {} /\ errorRepos = {}
     THEN [call EXCEPT !.pc = "existsMaster"]
     ELSE call

\* main() as it would be if it read neither the saved progress nor the two
\* directories
FetchMainNoResume ==
  /\ fpc = "idle"
  /\ fetchRun < Len(args)
  /\ offset' = args[fetchRun + 1].offset
  /\ limit' = args[fetchRun + 1].limit
  /\ existingRepos' = {}
  /\ errorRepos' = {}
  /\ currentId' = args[fetchRun + 1].offset
  /\ fetchRun' = fetchRun + 1
  /\ fpc' = "query"
  /\ createdDirs' = {}
  /\ memCursor' = 0
  /\ urls' = <<>>
  /\ uidx' = 1
  /\ batchNo' = 0
  /\ woken' = FALSE
  /\ inFlight' = {}
  /\ ftasks' = <<>>
  /\ newWrites' = {}
  /\ UNCHANGED <<table, readmes, markers, cursor, args, saved>>
  /\ UNCHANGED notFetchVars

\* main() from its start to the while loop: arguments, the scan of the two
\* directories when offset is 0, the work table and the saved progress
FetchMain ==
  /\ fpc = "idle"
  /\ fetchRun < Len(args)
  /\ LET o == args[fetchRun + 1].offset
     IN /\ offset' = o
        /\ limit' = args[fetchRun + 1].limit
        /\ existingRepos' = IF o = 0 THEN {f[1] : f \in readmes} ELSE {}
        /\ errorRepos' = IF o = 0 THEN {m[2] : m \in markers} ELSE {}
        /\ currentId' = IF o = 0 /\ cursor > o THEN cursor ELSE o
  /\ fetchRun' = fetchRun + 1
  /\ fpc' = "query"
  /\ createdDirs' = {}
  /\ memCursor' = 0
  /\ urls' = <<>>
  /\ uidx' = 1
  /\ batchNo' = 0
  /\ woken' = FALSE
  /\ inFlight' = {}
  /\ ftasks' = <<>>
  /\ newWrites' = {}
  /\ UNCHANGED <<table, readmes, markers, cursor, args, saved>>
  /\ UNCHANGED notFetchVars

\* the for loop as it would be without its wait for a free slot
startTasksNoWait(us, b, i, ts, fl) ==
  [uidx |-> Len(us) + 1,
   inFlight |-> fl \cup {us[k] : k \in i..Len(us)},
   ftasks |-> [r \in {us[k] : k \in i..Len(us)} |-> fetchAndSaveCall(table[r], b)] @@ ts]

\* The for loop over the rows us of iteration b of the while loop, from
\* position i: while inFlight is below CONCURRENCY the task of the next url
\* is started and added to inFlight (no await lies in between).  The value
\* is the position reached, with the tasks and inFlight.
RECURSIVE startTasks(_, _, _, _, _)
startTasks(us, b, i, ts, fl) ==
  IF i > Len(us) \/ Cardinality(fl) >= CONCURRENCY
  THEN [uidx |-> i, inFlight |-> fl, ftasks |-> ts]
  ELSE startTasks(us, b, i + 1,
                  (us[i] :> fetchAndSaveCall(table[us[i]], b)) @@ ts,
                  fl \cup {us[i]})

\* the dispatcher runs its for loop over us from position i, up to the await
\* of a free slot or, at the end of the rows, up to the await of the write of
\* the progress row (currentId += urls.length comes before it)
dispatchFrom(us, b, i) ==
  LET d == startTasks(us, b, i, ftasks, inFlight)
  IN /\ ftasks' = d.ftasks
     /\ inFlight' = d.inFlight
     /\ uidx' = d.uidx
     /\ woken' = FALSE
     /\ IF d.uidx > Len(us)
        THEN /\ fpc' = "save"
             /\ currentId' = currentId + Len(us)
        ELSE /\ fpc' = "wait"
             /\ UNCHANGED currentId

\* the test of the while loop, the query of the next rows, and the for loop
\* over them up to its first await
FetchQuery ==
  /\ fpc = "query"
  /\ LET lim == IF FETCH_BATCH_SIZE < EndId - currentId
                THEN FETCH_BATCH_SIZE ELSE EndId - currentId
         rows == IF currentId < EndId THEN QueryRows(currentId, lim) ELSE <<>>
     IN IF Len(rows) = 0
        THEN /\ fpc' = "join"
             /\ UNCHANGED <<urls, uidx, batchNo, currentId, woken, inFlight, ftasks>>
        ELSE /\ urls' = rows
             /\ batchNo' = batchNo + 1
             /\ dispatchFrom(rows, batchNo + 1, 1)
  /\ UNCHANGED <<table, readmes, markers, cursor, fetchRun, args, offset,
                 limit, existingRepos, errorRepos, createdDirs, memCursor,
                 newWrites, saved>>
  /\ UNCHANGED notFetchVars

\* the promise of the waiting dispatcher was resolved: the while loop tests
\* inFlight.size again and the for loop goes on
DispatchWake ==
  /\ fpc = "wait"
  /\ woken
  /\ dispatchFrom(urls, batchNo, uidx)
  /\ UNCHANGED <<table, readmes, markers, cursor, fetchRun, args, offset,
                 limit, existingRepos, errorRepos, createdDirs, memCursor,
                 urls, batchNo, newWrites, saved>>
  /\ UNCHANGED notFetchVars

\* INSERT OR REPLACE INTO progress has returned: the row is in the database
\* file when offset is 0, in the in-memory database otherwise
SaveProgress ==
  /\ fpc = "save"
  /\ IF offset > 0
     THEN memCursor' = currentId /\ UNCHANGED cursor
     ELSE cursor' = currentId /\ UNCHANGED memCursor
  /\ saved' = currentId
  /\ fpc' = "query"
  /\ UNCHANGED <<table, readmes, markers, fetchRun, args, offset,
                 limit, existingRepos, errorRepos, createdDirs,
                 currentId, urls, uidx, batchNo, woken, inFlight, ftasks,
                 newWrites>>
  /\ UNCHANGED notFetchVars

\* await Promise.all(inFlight) returns, and the run ends
Join ==
  /\ fpc = "join"
  /\ inFlight = {}
  /\ fpc' = "idle"
  /\ UNCHANGED <<table, readmes, markers, cursor, fetchRun, args, offset,
                 limit, existingRepos, errorRepos, createdDirs, memCursor,
                 currentId, urls, uidx, batchNo, woken, inFlight, ftasks,
                 newWrites, saved>>
  /\ UNCHANGED notFetchVars

\* the call t returns with outcome oc; its locals are gone
returned(t, oc) ==
  [t EXCEPT !.pc = "finished", !.outcome = oc, !.branch = 1,
            !.lastStatus = 404, !.found = FALSE, !.answers = <<>>]

\* what a step of a fetch task leaves alone
taskUnchanged ==
  /\ UNCHANGED <<table, cursor, fetchRun, args, offset, limit, fpc,
                 existingRepos, errorRepos, memCursor, currentId, urls, uidx,
                 batchNo, saved>>
  /\ UNCHANGED notFetchVars

\* parallel instance: Bun.file(<repoFile>_master_README.md).exists()
CheckMaster(r) ==
  /\ r \in DOMAIN ftasks
  /\ ftasks[r].pc = "existsMaster"
  /\ LET found == <<ftasks[r].origin, "master">> \in readmes
     IN ftasks' = [ftasks EXCEPT ![r].found = found,
                     ![r].pc = IF found THEN "exists404" ELSE "existsMain"]
  /\ UNCHANGED <<readmes, markers, createdDirs, woken, inFlight, newWrites>>
  /\ taskUnchanged

\* parallel instance: Bun.file(<repoFile>_main_README.md).exists()
CheckMain(r) ==
  /\ r \in DOMAIN ftasks
  /\ ftasks[r].pc = "existsMain"
  /\ ftasks' = [ftasks EXCEPT ![r].found = <<ftasks[r].origin, "main">> \in readmes,
                              ![r].pc = "exists404"]
  /\ UNCHANGED <<readmes, markers, createdDirs, woken, inFlight, newWrites>>
  /\ taskUnchanged

\* parallel instance: Bun.file(<errors>/404_1/<repoFile>).exists(), and the
\* test of alreadyDone
Check404(r) ==
  /\ r \in DOMAIN ftasks
  /\ ftasks[r].pc = "exists404"
  /\ LET existsError == <<"404_1", ftasks[r].origin>> \in markers
     IN ftasks' = IF ftasks[r].found \/ existsError
                  THEN [ftasks EXCEPT ![r] = returned(@, "skip")]
                  ELSE [ftasks EXCEPT ![r].pc = "fetch"]
  /\ UNCHANGED <<readmes, markers, createdDirs, woken, inFlight, newWrites>>
  /\ taskUnchanged

\* fetchAndSave after tryRawFetch has returned status st, with a body of
\* length len from branch b or with no content (hasContent false): the
\* artifact to write, and whether its directory has to be made first
afterFetch(t, st, hasContent, len, b) ==
  IF ~hasContent \/ len = 0
  THEN [t EXCEPT !.write = <<"marker", StatusKey(st)>>,
                 !.pc = IF StatusKey(st) \in createdDirs THEN "write" ELSE "mkdir"]
  ELSE IF len < MIN_SIZE
  THEN [t EXCEPT !.write = <<"marker", "tooSmall">>,
                 !.pc = IF "tooSmall" \in createdDirs THEN "write" ELSE "mkdir"]
  ELSE [t EXCEPT !.write = <<"file", b>>, !.pc = "write"]

\* tryRawFetch as it would be if lastStatus were the status of the last
\* answer
sweepLastAnswer(t, resp) ==
  LET b == BRANCHES[t.branch]
      last == resp.status
      u == [t EXCEPT !.requested = TRUE, !.answers = Append(@, resp.status)]
  IN IF resp.status = 200
     THEN afterFetch([u EXCEPT !.body = resp.len], 200, TRUE, resp.len, b)
     ELSE IF resp.status = 451
     THEN afterFetch(u, 451, FALSE, 0, "")
     ELSE IF t.branch < Len(BRANCHES)
     THEN [u EXCEPT !.branch = @ + 1, !.lastStatus = last]
     ELSE afterFetch([u EXCEPT !.lastStatus = last], last, FALSE, 0, "")

\* tryRawFetch: the answer resp to the request for the current candidate;
\* answers is the history of the statuses of the sweep
sweep(t, resp) ==
  LET b == BRANCHES[t.branch]
      last == IF resp.status = 0 THEN 0
              ELSE IF resp.status # 404 THEN resp.status ELSE t.lastStatus
      u == [t EXCEPT !.requested = TRUE, !.answers = Append(@, resp.status)]
  IN IF resp.status = 200
     THEN afterFetch([u EXCEPT !.body = resp.len], 200, TRUE, resp.len, b)
     ELSE IF resp.status = 451
     THEN afterFetch(u, 451, FALSE, 0, "")
     ELSE IF t.branch < Len(BRANCHES)
     THEN [u EXCEPT !.branch = @ + 1, !.lastStatus = last]
     ELSE afterFetch([u EXCEPT !.lastStatus = last], last, FALSE, 0, "")

\* a request of tryRawFetch is answered
FetchCandidate(r) ==
  /\ r \in DOMAIN ftasks
  /\ ftasks[r].pc = "fetch"
  /\ \E resp \in Responses : ftasks' = [ftasks EXCEPT ![r] = sweep(@, resp)]
  /\ UNCHANGED <<readmes, markers, createdDirs, woken, inFlight, newWrites>>
  /\ taskUnchanged

\* mkdir -p of the status directory has returned
Mkdir(r) ==
  /\ r \in DOMAIN ftasks
  /\ ftasks[r].pc = "mkdir"
  /\ createdDirs' = createdDirs \cup {ftasks[r].write[2]}
  /\ ftasks' = [ftasks EXCEPT ![r].pc = "write"]
  /\ UNCHANGED <<readmes, markers, woken, inFlight, newWrites>>
  /\ taskUnchanged

\* Bun.write of the README file or of the marker, and the return of the call
WriteOutcome(r) ==
  /\ r \in DOMAIN ftasks
  /\ ftasks[r].pc = "write"
  /\ LET o == ftasks[r].origin
         w == ftasks[r].write
     IN IF w[1] = "file"
        THEN /\ readmes' = readmes \cup {<<o, w[2]>>}
             /\ newWrites' = newWrites \cup ({<<"file", o, w[2]>>} \ {<<"file", f[1], f[2]>> : f \in readmes})
             /\ UNCHANGED markers
        ELSE /\ markers' = markers \cup {<<w[2], o>>}
             /\ newWrites' = newWrites \cup ({<<"marker", o, w[2]>>} \ {<<"marker", m[2], m[1]>> : m \in markers})
             /\ UNCHANGED readmes
  /\ ftasks' = [ftasks EXCEPT ![r] = returned(@, ftasks[r].write[1])]
  /\ UNCHANGED <<createdDirs, woken, inFlight>>
  /\ taskUnchanged

\* the .then() of a task: inFlight.delete(task), and resolveWaiter() if the
\* dispatcher waits in the iteration of the while loop that started the task
Release(r) ==
  /\ r \in DOMAIN ftasks
  /\ ftasks[r].pc = "finished"
  /\ ftasks' = [ftasks EXCEPT ![r].pc = "released"]
  /\ inFlight' = inFlight \ {r}
  /\ woken' = IF fpc = "wait" /\ ftasks[r].batch = batchNo THEN TRUE ELSE woken
  /\ UNCHANGED <<readmes, markers, createdDirs, newWrites>>
  /\ taskUnchanged

\* the fetcher is killed: the memory of the process is gone, and with it the
\* database of a parallel instance, which is new Database(":memory:"); the
\* rows of its tasks are kept as history
FetchKill ==
  /\ fpc # "idle"
  /\ fetchRun < Len(args)
  /\ fpc' = "idle"
  /\ memCursor' = 0
  /\ ftasks' = [r \in DOMAIN ftasks |->
                  [returned(ftasks[r], "none") EXCEPT !.pc = "killed", !.write = <<>>,
                                                       !.body = -1]]
  /\ inFlight' = {}
  /\ existingRepos' = {}
  /\ errorRepos' = {}
  /\ createdDirs' = {}
  /\ currentId' = 0
  /\ urls' = <<>>
  /\ uidx' = 1
  /\ batchNo' = 0
  /\ woken' = FALSE
  /\ UNCHANGED <<table, readmes, markers, cursor, fetchRun, args, offset, limit,
                 newWrites, saved>>
  /\ UNCHANGED notFetchVars

\* the fetcher is not running and has no progress row; the directories hold
\* the README files fs and the markers ms
InitFetch(tbl, as, fs, ms) ==
  /\ table = tbl
  /\ args = as
  /\ readmes = fs
  /\ markers = ms
  /\ cursor = 0
  /\ fetchRun = 0
  /\ offset = 0
  /\ limit = 0
  /\ fpc = "idle"
  /\ existingRepos = {}
  /\ errorRepos = {}
  /\ createdDirs = {}
  /\ memCursor = 0
  /\ currentId = 0
  /\ urls = <<>>
  /\ uidx = 1
  /\ batchNo = 0
  /\ woken = FALSE
  /\ inFlight = {}
  /\ ftasks = <<>>
  /\ newWrites = {}
  /\ saved = 0

Rows == 1..TableLen

LongRows == 1..LongTableLen

NextFetch ==
  \/ FetchMain
  \/ FetchQuery
  \/ DispatchWake
  \/ SaveProgress
  \/ Join
  \/ \E r \in LongRows : CheckMaster(r)
  \/ \E r \in LongRows : CheckMain(r)
  \/ \E r \in LongRows : Check404(r)
  \/ \E r \in LongRows : FetchCandidate(r)
  \/ \E r \in LongRows : Mkdir(r)
  \/ \E r \in LongRows : WriteOutcome(r)
  \/ \E r \in LongRows : Release(r)

\* the fetcher and the operator who kills it
NextFetchKill ==
  \/ NextFetch
  \/ FetchKill

(***************************************************************************)
(* Part IV.  Realtime pipeline (ingest.ts, main with a realtime provider)  *)
(*                                                                         *)
(* A content is a number: content 0 is shorter than 10 characters once     *)
(* trimmed, the contents 1..NumContents are not.  A SHA-1 digest is the    *)
(* pair of its first 32 hex digits and of its last 8; distinct contents    *)
(* of the model differ in the first 32.  A file name is the list of its    *)
(* parts between the "_".  The vector store applies an upsert when it      *)
(* answers it.  The outer chunks of the whole program hold fewer items     *)
(* than the buffer; the specification of one runRealtimePipeline call has  *)
(* a chunk of more items than the buffer and the workers hold, so that the *)
(* producer is made to wait.                                               *)
(***************************************************************************)

Contents == 0..NumContents

\* content.trim().length
TrimmedLen(c) == IF c = 0 THEN MIN_TRIMMED - 1 ELSE MIN_TRIMMED * ((2 * c) - 1)

\* the length of the content of an item as it would be without the slice
ContentLenNoSlice(c) == TrimmedLen(c)

\* the length of the content of an item: trimmed.slice(0, MAX_CONTENT_LEN)
ContentLen(c) ==
  IF TrimmedLen(c) < MAX_CONTENT_LEN THEN TrimmedLen(c) ELSE MAX_CONTENT_LEN

\* createHash("sha1").update(content).digest("hex")
Sha1(c) == <<c, (7 * c) % 5>>

\* sha1ToUuid: the first 32 hex digits, in the grouping of a UUID
sha1ToUuid(sha1) == sha1[1]

BranchTokens == {"main", "master", "default"}

NoParse == [isNull |-> TRUE, owner |-> "", repo |-> <<>>]

\* parseFilename: null unless a part after the second is a branch name
parseFilename(filename) ==
  LET hits == {i \in DOMAIN filename : filename[i] \in BranchTokens}
      branchIdx == IF hits = {} THEN -1
                   ELSE (CHOOSE i \in hits : \A j \in hits : i <= j) - 1
  IN IF branchIdx < 2 THEN NoParse
     ELSE [isNull |-> FALSE, owner |-> filename[1],
           repo |-> SubSeq(filename, 2, branchIdx)]

\* the files loadItems makes an item of, were they new
Loadable(f) == ~parseFilename(f.name).isNull /\ TrimmedLen(f.content) >= MIN_TRIMMED

\* a set of seen ids that is never consulted
seenNever(seenIds, id) == FALSE

\* seenIds.has(id), in the same synchronous piece as seenIds.add(id)
seenIdsHas(seenIds, id) == id \in seenIds

\* loadItems, the mapper of its pMap, on the files of `order` from the n-th
\* on; order is the order in which the reads of the files complete
RECURSIVE loadItemsFrom(_, _, _, _, _)
loadItemsFrom(order, n, existing, its, seenIds) ==
  IF n > Len(order) THEN its
  ELSE LET f == rtFiles[order[n]]
           parsed == parseFilename(f.name)
           content_hash == Sha1(f.content)
           id == sha1ToUuid(content_hash)
       IN IF \/ parsed.isNull
             \/ TrimmedLen(f.content) < MIN_TRIMMED
             \/ id \in existing
             \/ seenIdsHas(seenIds, id)
          THEN loadItemsFrom(order, n + 1, existing, its, seenIds)
          ELSE loadItemsFrom(order, n + 1, existing,
                 Append(its, [id |-> id,
                              repo_name |-> <<parsed.owner, parsed.repo>>,
                              content |-> f.content,
                              content_hash |-> content_hash]),
                 seenIds \cup {id})

loadItems(order, existing) == loadItemsFrom(order, 1, existing, <<>>, {})

\* files.slice(i, i + FILE_CHUNK_SIZE), as indices
ChunkFiles(i) ==
  {k \in DOMAIN rtFiles : i <= k /\ k < i + FILE_CHUNK_SIZE}

\* the orders in which the reads of a set of files can complete
Orders(S) ==
  {o \in [1..Cardinality(S) -> S] : \A a, b \in DOMAIN o : a # b => o[a] # o[b]}

\* splitBatchByChars
RECURSIVE splitFrom(_, _, _, _, _)
splitFrom(batch, n, result, current, currentChars) ==
  IF n > Len(batch)
  THEN (IF Len(current) > 0 THEN Append(result, current) ELSE result)
  ELSE IF currentChars + ContentLen(batch[n].content) > MAX_BATCH_CHARS /\ Len(current) > 0
  THEN splitFrom(batch, n + 1, Append(result, current), <<batch[n]>>,
                 ContentLen(batch[n].content))
  ELSE splitFrom(batch, n + 1, result, Append(current, batch[n]),
                 currentChars + ContentLen(batch[n].content))

splitBatchByChars(batch) == splitFrom(batch, 1, <<>>, <<>>, 0)

Ids(its) == {its[i].id : i \in DOMAIN its}

\* the answers of the provider to an embedding request: the embeddings, a
\* status the call tries again on (500 and above, 429), another status that
\* is not ok, and 402
EmbedAnswers == {"ok", "retry", "error", "402"}

\* new AsyncBuffer(BUFFER_MAX, BATCH_SIZE)
NewBuffer ==
  /\ buffer' = [items |-> <<>>, waitingProducers |-> <<>>, waitingConsumers |-> <<>>,
                done |-> FALSE, resolvedProducers |-> {}, resolvedConsumers |-> <<>>]
  /\ ppc' = [p \in Producers |-> "idle"]
  /\ pitem' = [p \in Producers |-> 0]
  /\ cpc' = [c \in Consumers |-> "idle"]
  /\ ret' = [c \in Consumers |-> Batch(<<>>)]
  /\ nextItem' = 1
  /\ produced' = <<>>
  /\ consumed' = <<>>
  /\ dropped' = {}
  /\ atFinish' = [producers |-> {}, consumers |-> {}, items |-> 0]
  /\ lastOp' = [op |-> "init", who |-> 0]

\* the variables of the batch pipeline the realtime pipeline has no use of
rtIdle == <<files, batches, stateFile, items, state, batchIds, idx, toProcess,
            processedIds, tasks, polled>>

NoWorkers ==
  /\ wpc' = [w \in Consumers |-> "new"]
  /\ wsub' = [w \in Consumers |-> <<>>]
  /\ wretries' = [w \in Consumers |-> 0]
  /\ upserted' = <<>>

\* every consumer(i) call has been made: the synchronous start of
\* runRealtimePipeline is over
Started == \A w \in Consumers : wpc[w] # "new"

\* main, lines 621-634: ensureCollection, fetchExistingIds, the scan
RtMain ==
  /\ pc = "start"
  /\ existingIds' = qdrant
  /\ rtChunk' = 1
  /\ IF Len(rtFiles) = 0
     THEN pc' = "done" /\ exitCode' = 0 /\ stops' = Append(stops, "done")
     ELSE pc' = "load" /\ UNCHANGED <<exitCode, stops>>
  /\ UNCHANGED <<qdrant, run, rtFiles, rtItems, rtNext, wpc, wsub, wretries,
                 upserted>>
  /\ UNCHANGED <<rtIdle, bufVars, fetchVars, funVars, sfVars>>

\* the for loop of main goes to its next round, or main returns
nextChunk ==
  /\ rtChunk' = rtChunk + FILE_CHUNK_SIZE
  /\ IF rtChunk + FILE_CHUNK_SIZE > Len(rtFiles)
     THEN pc' = "done" /\ exitCode' = 0 /\ stops' = Append(stops, "done")
     ELSE pc' = "load" /\ UNCHANGED <<exitCode, stops>>

\* main, lines 637-665: loadItems of the outer chunk has returned; with no
\* new item the chunk is skipped, else runRealtimePipeline makes the buffer
RtLoad ==
  /\ pc = "load"
  /\ \E order \in Orders(ChunkFiles(rtChunk)) :
       LET its == loadItems(order, existingIds)
       IN IF Len(its) = 0
          THEN /\ nextChunk
               /\ UNCHANGED <<rtItems, rtNext, wpc, wsub, wretries, upserted>>
               /\ UNCHANGED bufVars
          ELSE /\ pc' = "pipeline"
               /\ rtItems' = its
               /\ rtNext' = 1
               /\ NoWorkers
               /\ NewBuffer
               /\ UNCHANGED <<rtChunk, exitCode, stops>>
  /\ UNCHANGED <<qdrant, run, existingIds, rtFiles>>
  /\ UNCHANGED <<rtIdle, fetchVars, funVars, sfVars>>

\* producerTask, lines 349-354: the next push call (the first one is made
\* when the task is created, the others once the start is over), or the
\* continuation of a push that was made to wait
RtProducer ==
  /\ pc = "pipeline"
  /\ \/ /\ ppc[1] = "idle"
        /\ rtNext <= Len(rtItems)
        /\ rtNext = 1 \/ Started
        /\ pushFrom(1, rtItems[rtNext], buffer)
        /\ rtNext' = rtNext + 1
        /\ lastOp' = [op |-> "push", who |-> 1]
     \/ /\ ppc[1] = "waiting"
        /\ 1 \in buffer.resolvedProducers
        /\ pushFrom(1, pitem[1], [buffer EXCEPT !.resolvedProducers = @ \ {1}])
        /\ lastOp' = [op |-> "pushResume", who |-> 1]
        /\ UNCHANGED rtNext
  /\ UNCHANGED <<cpc, ret, nextItem, consumed, atFinish>>
  /\ UNCHANGED <<rtFiles, rtChunk, rtItems, wpc, wsub, wretries, stops, upserted>>
  /\ UNCHANGED <<batchVars, fetchVars, funVars, sfVars>>

\* producerTask, line 353: buffer.finish() after the last push
RtFinish ==
  /\ pc = "pipeline"
  /\ Started
  /\ ppc[1] = "idle"
  /\ rtNext > Len(rtItems)
  /\ ~buffer.done
  /\ buffer' = finish(buffer)
  /\ atFinish' = [producers |-> BlockedProducers, consumers |-> BlockedConsumers,
                  items |-> Len(buffer.items)]
  /\ lastOp' = [op |-> "finish", who |-> 0]
  /\ UNCHANGED <<ppc, pitem, cpc, ret, nextItem, produced, consumed, dropped>>
  /\ UNCHANGED <<batchVars, fetchVars, rtVars, funVars, sfVars>>

\* consumer, lines 359-366: what worker w does with the value of pull(), or
\* while pull() waits
afterPull(w) ==
  IF cpc'[w] = "waiting"
  THEN /\ wpc' = [wpc EXCEPT ![w] = "pull"]
       /\ wsub' = [wsub EXCEPT ![w] = <<>>]
       /\ UNCHANGED wretries
  ELSE IF ret'[w].isNull \/ Len(ret'[w].batch) = 0
  THEN /\ wpc' = [wpc EXCEPT ![w] = "ended"]
       /\ wsub' = [wsub EXCEPT ![w] = <<>>]
       /\ UNCHANGED wretries
  ELSE /\ wpc' = [wpc EXCEPT ![w] = "embed"]
       /\ wsub' = [wsub EXCEPT ![w] = splitBatchByChars(ret'[w].batch)]
       /\ wretries' = [wretries EXCEPT ![w] = RETRIES]

\* line 394: consumer(w) is called, after the producer task was created and
\* after the consumers before it; it runs up to its first await
RtStartWorker(w) ==
  /\ w \in Consumers
  /\ pc = "pipeline"
  /\ wpc[w] = "new"
  /\ rtNext > 1
  /\ \A v \in Consumers : v < w => wpc[v] # "new"
  /\ pullFrom(w, buffer)
  /\ afterPull(w)
  /\ lastOp' = [op |-> "pull", who |-> w]
  /\ UNCHANGED <<ppc, pitem, nextItem, produced, dropped, atFinish>>
  /\ UNCHANGED <<rtFiles, rtChunk, rtItems, rtNext, stops, upserted>>
  /\ UNCHANGED <<batchVars, fetchVars, funVars, sfVars>>

\* the promise worker w awaits in pull() has been resolved
RtPullResume(w) ==
  /\ w \in Consumers
  /\ pc = "pipeline"
  /\ Started
  /\ wpc[w] = "pull"
  /\ cpc[w] = "waiting"
  /\ w \in DOMAIN buffer.resolvedConsumers
  /\ pullAfterAwait(w, buffer.resolvedConsumers[w],
       [buffer EXCEPT !.resolvedConsumers =
          [d \in (DOMAIN @) \ {w} |-> @[d]]])
  /\ afterPull(w)
  /\ lastOp' = [op |-> "pullResume", who |-> w]
  /\ UNCHANGED <<ppc, pitem, nextItem, produced, dropped, atFinish>>
  /\ UNCHANGED <<rtFiles, rtChunk, rtItems, rtNext, stops, upserted>>
  /\ UNCHANGED <<batchVars, fetchVars, funVars, sfVars>>

\* embedRealtime (embed.ts 49-97) called at lines 367-371 answers worker w:
\* the embeddings; a status it sleeps and tries again on while it has
\* retries; else it throws an Error, which nothing catches before
\* main().catch
RtEmbed(w) ==
  /\ w \in Consumers
  /\ pc = "pipeline"
  /\ Started
  /\ wpc[w] = "embed"
  /\ \E answer \in EmbedAnswers :
       IF answer = "ok"
       THEN /\ wpc' = [wpc EXCEPT ![w] = "upsert"]
            /\ UNCHANGED <<wretries, pc, exitCode, stops>>
       ELSE IF answer = "retry" /\ wretries[w] > 0
       THEN /\ wretries' = [wretries EXCEPT ![w] = @ - 1]
            /\ UNCHANGED <<wpc, pc, exitCode, stops>>
       ELSE /\ wpc' = [wpc EXCEPT ![w] = IF answer = "402" THEN "budget" ELSE "thrown"]
            /\ Throw
            /\ stops' = Append(stops, IF answer = "402" THEN "budget" ELSE "error")
            /\ UNCHANGED wretries
  /\ UNCHANGED <<qdrant, run, existingIds, rtFiles, rtChunk, rtItems, rtNext, wsub,
                 upserted>>
  /\ UNCHANGED <<rtIdle, bufVars, fetchVars, funVars, sfVars>>

\* consumer, lines 373-392: the upsert of the sub-batch has been answered;
\* the worker goes on with the next sub-batch, or calls pull() again
RtUpsert(w) ==
  /\ w \in Consumers
  /\ pc = "pipeline"
  /\ Started
  /\ wpc[w] = "upsert"
  /\ qdrant' = qdrant \cup Ids(Head(wsub[w]))
  /\ upserted' = [i \in DOMAIN upserted \cup Ids(Head(wsub[w])) |->
                    (IF i \in DOMAIN upserted THEN upserted[i] ELSE 0)
                    + (IF i \in Ids(Head(wsub[w])) THEN 1 ELSE 0)]
  /\ IF Len(wsub[w]) > 1
     THEN /\ wpc' = [wpc EXCEPT ![w] = "embed"]
          /\ wsub' = [wsub EXCEPT ![w] = Tail(@)]
          /\ wretries' = [wretries EXCEPT ![w] = RETRIES]
          /\ UNCHANGED <<buffer, cpc, ret, consumed, lastOp>>
     ELSE /\ pullFrom(w, buffer)
          /\ afterPull(w)
          /\ lastOp' = [op |-> "pull", who |-> w]
  /\ UNCHANGED <<ppc, pitem, nextItem, produced, dropped, atFinish>>
  /\ UNCHANGED <<run, pc, exitCode, existingIds, rtFiles, rtChunk, rtItems, rtNext,
                 stops>>
  /\ UNCHANGED <<rtIdle, fetchVars, funVars, sfVars>>

\* Promise.all as it would be if it waited for the producer task only
producerDone == buffer.done

\* line 395: Promise.all([producerTask, ...consumerTasks]) is fulfilled
pipelineDone == buffer.done /\ \A w \in Consumers : wpc[w] = "ended"

\* main, lines 665-672: the pipeline has returned; the ids of the items are
\* added to existingIds and the loop goes on
RtJoin ==
  /\ pc = "pipeline"
  /\ pipelineDone
  /\ existingIds' = existingIds \cup Ids(rtItems)
  /\ nextChunk
  /\ UNCHANGED <<qdrant, run, rtFiles, rtItems, rtNext, wpc, wsub, wretries,
                 upserted>>
  /\ UNCHANGED <<rtIdle, bufVars, fetchVars, funVars, sfVars>>

\* the process has ended, and is started again on the same directory
RtRerun ==
  /\ pc \in {"done", "exited"}
  /\ run < MaxRuns
  /\ run' = run + 1
  /\ pc' = "start"
  /\ exitCode' = -1
  /\ existingIds' = {}
  /\ rtChunk' = 1
  /\ rtItems' = <<>>
  /\ rtNext' = 1
  /\ NoWorkers
  /\ NewBuffer
  /\ UNCHANGED <<qdrant, rtFiles, stops>>
  /\ UNCHANGED <<rtIdle, fetchVars, funVars, sfVars>>

\* the directory holds the files fs; no process has run yet
InitRealtime(fs) ==
  /\ rtFiles = fs
  /\ rtChunk = 1
  /\ rtItems = <<>>
  /\ rtNext = 1
  /\ wpc = [w \in Consumers |-> "new"]
  /\ wsub = [w \in Consumers |-> <<>>]
  /\ wretries = [w \in Consumers |-> 0]
  /\ stops = <<>>
  /\ upserted = <<>>

NextRealtime ==
  \/ RtMain
  \/ RtLoad
  \/ RtProducer
  \/ RtFinish
  \/ \E w \in Consumers : RtStartWorker(w)
  \/ \E w \in Consumers : RtPullResume(w)
  \/ \E w \in Consumers : RtEmbed(w)
  \/ \E w \in Consumers : RtUpsert(w)
  \/ RtJoin
  \/ RtRerun

\* one call of runRealtimePipeline, up to the return to main
NextPipeline ==
  \/ RtProducer
  \/ RtFinish
  \/ \E w \in Consumers : RtStartWorker(w)
  \/ \E w \in Consumers : RtPullResume(w)
  \/ \E w \in Consumers : RtEmbed(w)
  \/ \E w \in Consumers : RtUpsert(w)
  \/ RtJoin

(***************************************************************************)
(* Part V.  Functions                                                      *)
(*                                                                         *)
(* A specification of this part draws the argument of a function from a    *)
(* bounded set and has one step, the call.  A string that is cut at its    *)
(* "_" is the list of its parts.                                           *)
(***************************************************************************)

\* the function is to be called with a
InitFun(a) ==
  /\ arg = a
  /\ retval = <<>>

\* the parts a repository name is made of in the model
NameParts == {"a", "b", "main", "master", "default"}

\* the repository names of at most MaxRepoParts parts
RepoNames == UNION {[1..n -> NameParts] : n \in 1..MaxRepoParts}

\* fetchAndSave, lines 312-313 and 380: the name of the README file,
\* `${repoFile}_${result.branch}_${result.filename}` with repoFile the
\* owner and the repository joined by "_"
outFile(owner, repo, branch, filename) == <<owner>> \o repo \o <<branch, filename>>

\* parseFilename is called with the name the fetcher gives to the README of
\* arg.owner/arg.repo found on arg.branch
ParseWritten ==
  /\ Len(retval) = 0
  /\ retval' = <<parseFilename(outFile(arg.owner, arg.repo, arg.branch, "README.md"))>>
  /\ UNCHANGED arg
  /\ UNCHANGED notFunVars

\* what one fetch() of fetchWithRetry can end in: 0 stands for a thrown
\* error (network failure, timeout), the others are the status of the response
Outcomes == {0, 429, 500, 502, 503, 504, 200, 404}

\* the statuses fetchWithRetry tries again after a wait, without one fewer
RetriedStatusesButLast == {429, 500, 502, 503}

\* [429, 500, 502, 503, 504].includes(response.status)
RetriedStatuses == {429, 500, 502, 503, 504}

\* the loop of fetchWithRetry from attempt retry on, outcomes[k] being the end
\* of the k-th fetch(): requests counts the calls of fetch(), selections the
\* calls of proxyPool.get(); response and error are <<>> for null
RECURSIVE fetchWithRetryFrom(_, _, _, _)
fetchWithRetryFrom(outcomes, retry, lastErr, requests) ==
  IF retry >= MAX_RETRIES
  THEN [response |-> <<>>,
        error |-> IF lastErr = <<>> THEN <<"max retries exceeded">> ELSE lastErr,
        requests |-> requests, selections |-> requests]
  ELSE LET o == outcomes[retry + 1]
       IN IF o = 0
          THEN IF retry < MAX_RETRIES - 1
               THEN fetchWithRetryFrom(outcomes, retry + 1, <<"FetchError">>, requests + 1)
               ELSE [response |-> <<>>, error |-> <<"FetchError">>,
                     requests |-> requests + 1, selections |-> requests + 1]
          ELSE IF o \in RetriedStatuses
          THEN fetchWithRetryFrom(outcomes, retry + 1, lastErr, requests + 1)
          ELSE [response |-> <<o>>, error |-> <<>>,
                requests |-> requests + 1, selections |-> requests + 1]

fetchWithRetry(outcomes) == fetchWithRetryFrom(outcomes, 0, <<>>, 0)

\* what tryRawFetch sees of the result: if (error) the status 0, else the
\* status of the response
seenBySweep(res) ==
  IF res.error # <<>> THEN [status |-> 0, len |-> 0]
  ELSE [status |-> res.response[1], len |-> 0]

\* fetchWithRetry is called for one URL
FetchWithRetryCall ==
  /\ Len(retval) = 0
  /\ retval' = <<fetchWithRetry(arg)>>
  /\ UNCHANGED arg
  /\ UNCHANGED notFunVars

\* the statuses the provider can answer a request of embedRealtime with
EmbedStatuses == {200, 400, 402, 404, 422, 429, 500, 502, 503, 504}

\* the test of the retry as it would be for every status from 400 on
retriedAnyError(status) == status >= 400

\* res.status >= 500 || res.status === 429
retried(status) == status >= 500 \/ status = 429

\* embedRealtime is called by its caller, with the default of retries; the
\* requests made, the last status and the delays slept (ms) are history
embedRealtimeCall ==
  [retries |-> DEFAULT_RETRIES, requests |-> 0, status |-> 0, waits |-> <<>>]

\* the request of the current call of embedRealtime is answered with status:
\* an OK answer is returned, a retried status with retries left sleeps
\* (11 - retries) * 2000 ms and calls embedRealtime with retries - 1, any
\* other answer throws
EmbedRealtimeAnswer(status) ==
  /\ Len(retval) = 0
  /\ LET call == [arg EXCEPT !.requests = @ + 1, !.status = status]
     IN IF status = 200
        THEN /\ arg' = call
             /\ retval' = <<"embeddings">>
        ELSE IF arg.retries > 0 /\ retried(status)
        THEN /\ arg' = [call EXCEPT !.retries = @ - 1,
                                    !.waits = Append(@, (11 - arg.retries) * 2000)]
             /\ UNCHANGED retval
        ELSE /\ arg' = call
             /\ retval' = <<"Error">>
  /\ UNCHANGED notFunVars

NextEmbedRetry == \E status \in EmbedStatuses : EmbedRealtimeAnswer(status)

\* the lines a proxy file is made of: ip:port, ip:port:user:pwd, and a line
\* that is neither
ProxyLines == {<<"1", "80">>, <<"2", "80">>, <<"3", "80", "u", "p">>, <<"x">>}

ProxyFiles == UNION {[1..n -> ProxyLines] : n \in 0..MaxProxyLines}

\* the times are kept in units of 1 / 5^MaxReports ms, in which the moving
\* average of MaxReports reports is exact
RECURSIVE Pow5(_)
Pow5(n) == IF n = 0 THEN 1 ELSE 5 * Pow5(n - 1)

TimeUnit == Pow5(MaxReports)

\* ProxyPool.load from the n-th line on: a line of 4 or of 2 parts gives a
\* url, which is added with the first estimate unless it is there
RECURSIVE loadFrom(_, _, _)
loadFrom(lines, n, pool) ==
  IF n > Len(lines) THEN pool
  ELSE LET parts == lines[n]
           url == IF Len(parts) = 4
                  THEN <<parts[3], parts[4], parts[1], parts[2]>>
                  ELSE parts
       IN IF Len(parts) \notin {2, 4} \/ url \in Range(pool.urls)
          THEN loadFrom(lines, n + 1, pool)
          ELSE loadFrom(lines, n + 1,
                 [pool EXCEPT !.urls = Append(@, url),
                              !.times = Append(@, INITIAL_TIME * TimeUnit)])

load(lines) == loadFrom(lines, 1, [urls |-> <<>>, times |-> <<>>, reports |-> 0])

\* the last line of get() as it would be with the comparison turned round
pickSlower(times, i1, i2) == IF times[i1 + 1] >= times[i2 + 1] THEN i1 ELSE i2

\* this.times[i1] <= this.times[i2] ? i1 : i2, the indices counted from 0
pick(times, i1, i2) == IF times[i1 + 1] <= times[i2 + 1] THEN i1 ELSE i2

\* ProxyPool.get(), r1 and r2 being the two values of
\* Math.floor(Math.random() * len)
ProxyGet(r1, r2) ==
  /\ r1 \in 0..(MaxProxyLines - 1)
  /\ r2 \in 0..(MaxProxyLines - 1)
  /\ "urls" \in DOMAIN arg
  /\ LET len == Len(arg.urls)
     IN IF len = 0
        THEN /\ r1 = 0 /\ r2 = 0
             /\ retval' = <<[isNull |-> TRUE, url |-> <<>>, i1 |-> 0, i2 |-> 0]>>
        ELSE /\ r1 < len /\ r2 < len
             /\ LET i1 == r1
                    i2 == IF r2 = i1 THEN (r2 + 1) % len ELSE r2
                IN retval' = <<[isNull |-> FALSE,
                                url |-> arg.urls[pick(arg.times, i1, i2) + 1],
                                i1 |-> i1, i2 |-> i2]>>
  /\ UNCHANGED arg
  /\ UNCHANGED notFunVars

\* the times a request through a proxy is reported with
ReportedTimes == {0, 500, 5000, BAD_PROXY_PENALTY}

\* ProxyPool.report(url, timeMs): the moving average of a url of the pool,
\* nothing for another url
ProxyReport(url, timeMs) ==
  /\ "urls" \in DOMAIN arg
  /\ arg.reports < MaxReports
  /\ LET hits == {k \in DOMAIN arg.urls : arg.urls[k] = url}
     IN IF hits = {}
        THEN arg' = [arg EXCEPT !.reports = @ + 1]
        ELSE LET at == CHOOSE k \in hits : TRUE
             IN arg' = [arg EXCEPT !.reports = @ + 1,
                          !.times[at] = ((8 * @) + (2 * timeMs * TimeUnit)) \div 10]
  /\ retval' = <<>>
  /\ UNCHANGED notFunVars

\* the urls report is called with: those of the lines, and one of no line
ReportedUrls == {<<"1", "80">>, <<"2", "80">>, <<"u", "p", "3", "80">>, <<"9", "80">>}

NextProxy ==
  \/ \E r1, r2 \in 0..(MaxProxyLines - 1) : ProxyGet(r1, r2)
  \/ \E url \in ReportedUrls, timeMs \in ReportedTimes : ProxyReport(url, timeMs)

(***************************************************************************)
(* Part VI.  The writes of batch-state.json by the chunk workers           *)
(*                                                                         *)
(* saveBatchState is await Bun.write(file, JSON.stringify(state)): the     *)
(* content is taken from the state object when the call is made, and the   *)
(* worker goes on when its write has completed.  Nothing orders the writes *)
(* of two workers that are in flight together: each replaces the whole     *)
(* file, and the one that completes last decides the content.  Chunk w     *)
(* submits batch w.                                                        *)
(***************************************************************************)

ChunkWorkers == 1..NumChunkWorkers

\* p-map starts the mapper of the next chunk when a mapper returns
mapperReturns(w) ==
  LET queued == {v \in DOMAIN sfpc : sfpc[v] = "queued"}
  IN IF queued = {} THEN [sfpc EXCEPT ![w] = "done"]
     ELSE [sfpc EXCEPT ![w] = "done",
                       ![CHOOSE v \in queued : \A u \in queued : v <= u] = "submit"]

\* saveBatchState(state) is called by worker w with the state object st
saveBatchState(w, st) ==
  /\ sfWrites' = sfWrites \cup {[no |-> sfIssued + 1, by |-> w, content |-> st]}
  /\ sfIssued' = sfIssued + 1

\* runBatchPipeline, lines 560-569: submitBatchJob has returned; the entry is
\* put in the state object and the write of the file is issued
SfSubmitted(w) ==
  /\ w \in DOMAIN sfpc
  /\ sfpc[w] = "submit"
  /\ sfState' = sfState \cup {w}
  /\ saveBatchState(w, sfState \cup {w})
  /\ sfpc' = [sfpc EXCEPT ![w] = "save"]
  /\ UNCHANGED sfFile
  /\ UNCHANGED notSfVars

\* a write in flight completes: the file has its content, and the worker
\* that awaits it goes on, to its poll or to its return
SfWritten(k) ==
  /\ \E wr \in sfWrites :
       /\ wr.no = k
       /\ sfFile' = wr.content
       /\ sfWrites' = sfWrites \ {wr}
       /\ sfpc' = IF sfpc[wr.by] = "save" THEN [sfpc EXCEPT ![wr.by] = "poll"]
                  ELSE mapperReturns(wr.by)
  /\ UNCHANGED <<sfState, sfIssued>>
  /\ UNCHANGED notSfVars

\* pollBatchJob has returned and processBatchResults has upserted: the
\* retention rule deletes the entry and issues the write of the file, or
\* keeps the entry
SfProcessed(w, removes) ==
  /\ w \in DOMAIN sfpc
  /\ sfpc[w] = "poll"
  /\ IF removes
     THEN /\ sfState' = sfState \ {w}
          /\ saveBatchState(w, sfState \ {w})
          /\ sfpc' = [sfpc EXCEPT ![w] = "remove"]
     ELSE /\ sfpc' = mapperReturns(w)
          /\ UNCHANGED <<sfState, sfWrites, sfIssued>>
  /\ UNCHANGED sfFile
  /\ UNCHANGED notSfVars

\* runBatchPipeline, lines 547-553: the state is loaded from the file and
\* p-map starts the mappers of the first BATCH_PARALLEL of n chunks
InitStateWrites(n) ==
  /\ sfState = {}
  /\ sfFile = {}
  /\ sfWrites = {}
  /\ sfpc = [w \in 1..n |-> IF w <= BATCH_PARALLEL THEN "submit" ELSE "queued"]
  /\ sfIssued = 0

NextStateWrites ==
  \/ \E w \in ChunkWorkers : SfSubmitted(w)
  \/ \E k \in 1..(2 * NumChunkWorkers) : SfWritten(k)
  \/ \E w \in ChunkWorkers, removes \in BOOLEAN : SfProcessed(w, removes)

\* no process has run yet: nothing at the provider, in the state file or in
\* the vector store
InitBatch ==
  /\ files = 1..NumItems
  /\ batches = <<>>
  /\ stateFile = NoEntries
  /\ qdrant = {}
  /\ run = 1
  /\ pc = "start"
  /\ exitCode = -1
  /\ existingIds = {}
  /\ items = {}
  /\ state = NoEntries
  /\ batchIds = <<>>
  /\ idx = 1
  /\ toProcess = <<>>
  /\ processedIds = {}
  /\ tasks = <<>>
  /\ polled = {}

NextBatch ==
  \/ MainLoad
  \/ ResumeLoad
  \/ ResumeCheck
  \/ Filter
  \/ \E t \in TaskIds : Download(t)
  \/ \E t \in TaskIds : Poll(t)
  \/ \E t \in TaskIds : Upsert(t)
  \/ \E t \in TaskIds : Retain(t)
  \/ \E t \in TaskIds : Submit(t)
  \/ \E t \in TaskIds : Save(t)
  \/ \E b \in BatchIds : ProviderStart(b)
  \/ \E b \in BatchIds : ProviderComplete(b)
  \/ \E b \in BatchIds : ProviderEnd(b)
  \/ Kill
  \/ Rerun

(***************************************************************************)
(* Specifications                                                          *)
(***************************************************************************)

InitBuffer ==
  /\ buffer = [items |-> <<>>, waitingProducers |-> <<>>, waitingConsumers |-> <<>>,
               done |-> FALSE, resolvedProducers |-> {}, resolvedConsumers |-> <<>>]
  /\ ppc = [p \in Producers |-> "idle"]
  /\ pitem = [p \in Producers |-> 0]
  /\ cpc = [c \in Consumers |-> "idle"]
  /\ ret = [c \in Consumers |-> Batch(<<>>)]
  /\ nextItem = 1
  /\ produced = <<>>
  /\ consumed = <<>>
  /\ dropped = {}
  /\ atFinish = [producers |-> {}, consumers |-> {}, items |-> 0]
  /\ lastOp = [op |-> "init", who |-> 0]

NextBuffer ==
  \/ \E p \in Producers : PushCall(p)
  \/ \E p \in Producers : PushResume(p)
  \/ \E c \in Consumers : PullCall(c)
  \/ \E c \in Consumers : PullResume(c)
  \/ Finish

\* the AsyncBuffer alone
InitSpecBuffer == InitBuffer /\ InitBatch /\ InitFetch(<<>>, <<>>, {}, {}) /\ InitRealtime(<<>>) /\ InitFun(<<>>) /\ InitStateWrites(0)

SpecBuffer == InitSpecBuffer /\ [][NextBuffer]_vars

\* The continuation of a task whose promise has been resolved is a queued
\* microtask: the JavaScript run loop always runs it.
FairBuffer ==
  /\ \A p \in Producers : WF_vars(PushResume(p))
  /\ \A c \in Consumers : WF_vars(PullResume(c))

SpecBufferFair == SpecBuffer /\ FairBuffer

\* the batch pipeline (--provider=nebius-batch), over runs of the process
InitSpecBatch == InitBatch /\ InitBuffer /\ InitFetch(<<>>, <<>>, {}, {}) /\ InitRealtime(<<>>) /\ InitFun(<<>>) /\ InitStateWrites(0)

SpecBatch == InitSpecBatch /\ [][NextBatch]_vars

\* A run that finds one batch in the state file: an earlier run submitted the
\* n files on disk as one chunk and was killed, and the provider has completed
\* the batch with k embeddings.
InitRetention ==
  /\ \E n \in 1..BATCH_CHUNK_SIZE, k \in 0..BATCH_CHUNK_SIZE :
       /\ k <= n
       /\ files = 1..n
       /\ batches = <<[items |-> 1..n, status |-> "completed", file |-> TRUE,
                       results |-> 1..k]>>
       /\ stateFile = WithEntry(NoEntries, 1, [items |-> 1..n, itemIds |-> FALSE])
  /\ qdrant = {}
  /\ run = 2
  /\ pc = "start"
  /\ exitCode = -1
  /\ existingIds = {}
  /\ items = {}
  /\ state = NoEntries
  /\ batchIds = <<>>
  /\ idx = 1
  /\ toProcess = <<>>
  /\ processedIds = {}
  /\ tasks = <<>>
  /\ polled = {}

InitSpecRetention == InitRetention /\ InitBuffer /\ InitFetch(<<>>, <<>>, {}, {}) /\ InitRealtime(<<>>) /\ InitFun(<<>>) /\ InitStateWrites(0)

NextRetention ==
  \/ MainLoad
  \/ ResumeLoad
  \/ ResumeCheck
  \/ \E t \in TaskIds : Download(t)
  \/ \E t \in TaskIds : Upsert(t)
  \/ \E t \in TaskIds : Retain(t)
  \/ Filter

\* the resume of one completed batch, for every size and number of results
SpecRetention == InitSpecRetention /\ [][NextRetention]_vars

\* A run that finds an entry the retention rule has kept: an earlier run
\* submitted the first BATCH_CHUNK_SIZE files as one chunk, the provider
\* completed the batch with too few embeddings, the run upserted them, kept
\* the entry and ended; one more file has been written to the directory since.
InitRetained ==
  /\ files = 1..NumItems
  /\ \E f \in 0..MaxFailed :
       /\ ~RemovesEntry(BATCH_CHUNK_SIZE - f, BATCH_CHUNK_SIZE)
       /\ batches = <<[items |-> 1..BATCH_CHUNK_SIZE, status |-> "completed",
                       file |-> TRUE,
                       results |-> ResultsWithout(1..BATCH_CHUNK_SIZE, f)]>>
       /\ qdrant = ResultsWithout(1..BATCH_CHUNK_SIZE, f)
  /\ stateFile = WithEntry(NoEntries, 1,
                           [items |-> 1..BATCH_CHUNK_SIZE, itemIds |-> FALSE])
  /\ run = 1
  /\ pc = "start"
  /\ exitCode = -1
  /\ existingIds = {}
  /\ items = {}
  /\ state = NoEntries
  /\ batchIds = <<>>
  /\ idx = 1
  /\ toProcess = <<>>
  /\ processedIds = {}
  /\ tasks = <<>>
  /\ polled = {1}

InitSpecRetained ==
  /\ InitRetained
  /\ InitBuffer
  /\ InitFetch(<<>>, <<>>, {}, {})
  /\ InitRealtime(<<>>) /\ InitFun(<<>>) /\ InitStateWrites(0)

\* the runs that follow the one that kept the entry
SpecRetained == InitSpecRetained /\ [][NextBatch]_vars

\* the command line of a run
Args == [offset : Offsets, limit : Limits]

\* What earlier runs (with another --min-date, or on another slice) may have
\* left in the directories: nothing, a README file, or a marker.
Leftovers ==
  {[readmes |-> {}, markers |-> {}],
   [readmes |-> {<<NumRepos, "main">>}, markers |-> {}],
   [readmes |-> {}, markers |-> {<<"451", NumRepos>>}]}

\* one run of the fetcher, for every work table of TableLen origins, every
\* command line and every leftover
InitSpecFetch ==
  /\ InitBuffer
  /\ InitBatch
  /\ \E tbl \in [Rows -> Origins], a \in Args, l \in Leftovers :
       InitFetch(tbl, <<a>>, l.readmes, l.markers)
  /\ InitRealtime(<<>>) /\ InitFun(<<>>) /\ InitStateWrites(0)

SpecFetch == InitSpecFetch /\ [][NextFetch]_vars

\* a work table of more rows than one iteration of the while loop takes,
\* the repositories in turn
LongTable == [r \in LongRows |-> ((r - 1) % NumRepos) + 1]

\* one run of the fetcher on the long work table, in empty directories
InitSpecDispatch ==
  /\ InitBuffer
  /\ InitBatch
  /\ \E a \in Args : InitFetch(LongTable, <<a>>, {}, {})
  /\ InitRealtime(<<>>) /\ InitFun(<<>>) /\ InitStateWrites(0)

SpecDispatch == InitSpecDispatch /\ [][NextFetch]_vars

\* two runs of the fetcher with --offset=0 and the same --limit
InitSpecRerun ==
  /\ InitBuffer
  /\ InitBatch
  /\ \E tbl \in [Rows -> Origins], k \in Limits, l \in Leftovers :
       InitFetch(tbl, <<[offset |-> 0, limit |-> k], [offset |-> 0, limit |-> k]>>,
                 l.readmes, l.markers)
  /\ InitRealtime(<<>>) /\ InitFun(<<>>) /\ InitStateWrites(0)

SpecRerun == InitSpecRerun /\ [][NextFetch]_vars

\* a run of the fetcher that ends or is killed, and a second run with the
\* same command line, from empty directories, for the work tables that
\* start with the NumRepos repositories and go on with any of them
InitSpecRestart ==
  /\ InitBuffer
  /\ InitBatch
  /\ \E tbl \in [Rows -> Repos], a \in Args :
       /\ \A r \in Repos : tbl[r] = r
       /\ InitFetch(tbl, <<a, a>>, {}, {})
  /\ InitRealtime(<<>>) /\ InitFun(<<>>) /\ InitStateWrites(0)

SpecRestart == InitSpecRestart /\ [][NextFetchKill]_vars

\* the name of the k-th file: the repository of a file may be called "main"
FileName(k, repo) == <<ToString(k), repo, "master", "README.md">>

\* what a file of the directory can be
FileKinds ==
  {[repo |-> "r", content |-> c] : c \in Contents}
    \cup {[repo |-> "main", content |-> 1]}

\* the realtime pipeline over runs of the process, for every directory of
\* NumFiles files
InitSpecRealtime ==
  /\ InitBuffer
  /\ InitBatch
  /\ InitFetch(<<>>, <<>>, {}, {})
  /\ \E kinds \in [1..NumFiles -> FileKinds] :
       InitRealtime([k \in 1..NumFiles |->
                       [name |-> FileName(k, kinds[k].repo),
                        content |-> kinds[k].content]])
  /\ InitFun(<<>>) /\ InitStateWrites(0)

SpecRealtime == InitSpecRealtime /\ [][NextRealtime]_vars

\* the files of an outer chunk of LongChunkLen files, each with a content of
\* its own
LongChunk ==
  [k \in 1..LongChunkLen |-> [name |-> FileName(k, "r"), content |-> k]]

\* main has loaded the items of the long chunk in a first run on an empty
\* vector store and calls runRealtimePipeline with them
InitSpecPipeline ==
  /\ InitBuffer
  /\ files = 1..NumItems
  /\ batches = <<>>
  /\ stateFile = NoEntries
  /\ qdrant = {}
  /\ run = 1
  /\ pc = "pipeline"
  /\ exitCode = -1
  /\ existingIds = {}
  /\ items = {}
  /\ state = NoEntries
  /\ batchIds = <<>>
  /\ idx = 1
  /\ toProcess = <<>>
  /\ processedIds = {}
  /\ tasks = <<>>
  /\ polled = {}
  /\ InitFetch(<<>>, <<>>, {}, {})
  /\ rtFiles = LongChunk
  /\ rtChunk = 1
  /\ rtItems = loadItems([k \in 1..LongChunkLen |-> k], {})
  /\ rtNext = 1
  /\ wpc = [w \in Consumers |-> "new"]
  /\ wsub = [w \in Consumers |-> <<>>]
  /\ wretries = [w \in Consumers |-> 0]
  /\ stops = <<>>
  /\ upserted = <<>>
  /\ InitFun(<<>>) /\ InitStateWrites(0)

SpecPipeline == InitSpecPipeline /\ [][NextPipeline]_vars

\* The continuations of the producer task and of the workers are queued
\* when their promises are resolved, and every request to the provider and
\* to the vector store is answered.
SpecPipelineFair == SpecPipeline /\ WF_vars(NextPipeline)

\* parseFilename on the names the fetcher writes, for every repository name
\* of the model and both branches
InitSpecParse ==
  /\ InitBuffer
  /\ InitBatch
  /\ InitFetch(<<>>, <<>>, {}, {})
  /\ InitRealtime(<<>>)
  /\ \E repo \in RepoNames, b \in Range(BRANCHES) :
       InitFun([owner |-> "o", repo |-> repo, branch |-> b]) /\ InitStateWrites(0)

SpecParse == InitSpecParse /\ [][ParseWritten]_vars

\* fetchWithRetry for every way the MAX_RETRIES attempts can end
InitSpecRetry ==
  /\ InitBuffer
  /\ InitBatch
  /\ InitFetch(<<>>, <<>>, {}, {})
  /\ InitRealtime(<<>>)
  /\ \E outcomes \in [1..MAX_RETRIES -> Outcomes] : InitFun(outcomes) /\ InitStateWrites(0)

\* the chunk workers of one run of the batch pipeline and their writes
InitSpecStateWrites ==
  /\ InitBuffer
  /\ InitBatch
  /\ InitFetch(<<>>, <<>>, {}, {})
  /\ InitRealtime(<<>>)
  /\ InitFun(<<>>) /\ InitStateWrites(NumChunkWorkers)

SpecStateWrites == InitSpecStateWrites /\ [][NextStateWrites]_vars

SpecRetry == InitSpecRetry /\ [][FetchWithRetryCall]_vars

\* one call of embedRealtime with the default number of retries
InitSpecEmbedRetry ==
  /\ InitBuffer
  /\ InitBatch
  /\ InitFetch(<<>>, <<>>, {}, {})
  /\ InitRealtime(<<>>)
  /\ InitFun(embedRealtimeCall) /\ InitStateWrites(0)

SpecEmbedRetry == InitSpecEmbedRetry /\ [][NextEmbedRetry]_vars

\* a ProxyPool that has loaded a proxy file
InitSpecProxy ==
  /\ InitBuffer
  /\ InitBatch
  /\ InitFetch(<<>>, <<>>, {}, {})
  /\ InitRealtime(<<>>)
  /\ \E lines \in ProxyFiles : InitFun(load(lines)) /\ InitStateWrites(0)

SpecProxy == InitSpecProxy /\ [][NextProxy]_vars

(***************************************************************************)
(* Claims about the batch pipeline                                         *)
(***************************************************************************)


\* C1: an item of a batch that exists at the provider, and is not failed,
\* expired or cancelled, is never part of a batch submitted later, whenever
\* the process is killed and started again.
C1_NoDuplicateSubmission ==
  \A b1, b2 \in DOMAIN batches :
    (b1 < b2 /\ batches[b1].status \notin Terminal)
      => batches[b1].items \cap batches[b2].items = {}

\* C2: when a run ends, every batch that was in the state file when the run
\* loaded it, or is in it now, has each of its results in the vector store.
C2_NoOmission ==
  pc = "done" =>
    \A b \in DOMAIN batches :
      (b \in Range(batchIds) \/ b \in DOMAIN stateFile)
        => batches[b].results \subseteq qdrant

\* a run after a kill has ended; it found a batch in the state file that was
\* not completed yet, polled it to completion and upserted its results, none
\* of which was in the vector store when the run started
C2_Witness ==
  /\ run > 1
  /\ pc = "done"
  /\ \E t \in DOMAIN tasks :
       /\ tasks[t].first = "poll"
       /\ tasks[t].batchId \in Range(batchIds)
       /\ tasks[t].results # {}
       /\ tasks[t].results \cap existingIds = {}
       /\ tasks[t].results \subseteq qdrant

\* C3: an entry leaves the state file only when (i) the results of its batch
\* are upserted and are at least 99% of its items, or (ii) it has fewer than
\* 50 items, or (iii) the provider reports failed, expired or cancelled.
C3_EntryRemovedOnlyWhen ==
  [][\A b \in DOMAIN stateFile :
       b \notin DOMAIN stateFile' =>
         LET n == Cardinality(stateFile[b].items)
             got == batches[b].results \cap stateFile[b].items
         IN \/ /\ batches[b].status = "completed"
               /\ got \subseteq qdrant
               /\ Cardinality(got) * 100 >= 99 * n
            \/ n < 50
            \/ batches[b].status \in Terminal]_vars

\* C4: processBatchResults, having upserted k of the n items of a batch,
\* deletes the entry of the batch if and only if k/n >= 0.99 or n < 50; so
\* it deletes for n = 49, keeps for n = 50 with k = 49 and deletes for
\* n = 100 with k = 99.
C4_RetentionRule ==
  [][\A t \in DOMAIN tasks :
       (tasks[t].pc = "retain" /\ tasks'[t].pc = "done") =>
         LET b == tasks[t].batchId
             n == Cardinality(tasks[t].items)
             k == Cardinality(tasks[t].sent \cap qdrant)
             deleted == b \in DOMAIN stateFile /\ b \notin DOMAIN stateFile'
             kept == b \in DOMAIN stateFile /\ b \in DOMAIN stateFile'
         IN /\ deleted \/ kept
            /\ deleted <=> (k * 100 >= 99 * n \/ n <= 49)
            /\ n = 49 => deleted
            /\ (n = 50 /\ k = 49) => kept
            /\ (n = 100 /\ k = 99) => deleted]_vars

\* a batch of 100 items with exactly 99 upserted has gone through the rule
\* and its entry is gone
C4_Witness ==
  \E t \in DOMAIN tasks :
    /\ tasks[t].pc = "done"
    /\ Cardinality(tasks[t].items) = 100
    /\ Cardinality(tasks[t].sent \cap qdrant) = 99
    /\ tasks[t].batchId \notin DOMAIN stateFile

\* C5: at the first status poll of a batch, the state file already holds the
\* entry of the batch.
C5_PersistBeforePoll ==
  [][\A b \in BatchIds :
       (b \notin polled /\ b \in polled') =>
         (b \in DOMAIN stateFile /\ stateFile[b].items = batches[b].items)]_vars

\* a chunk worker has submitted a batch in this run, saved it and polled it
C5_Witness ==
  /\ pc = "chunkMap"
  /\ \E t \in DOMAIN tasks :
       /\ tasks[t].first = "submit"
       /\ tasks[t].pc = "poll"
       /\ tasks[t].batchId \in polled
       /\ tasks[t].batchId \in DOMAIN stateFile

(***************************************************************************)
(* Claims about the AsyncBuffer                                            *)
(***************************************************************************)

\* C6: in every reachable state, whatever the interleaving of push, pull and
\* finish, the buffer holds at most maxSize items.
C6_Capacity == Len(buffer.items) <= MaxSize

\* the buffer is full after a batch has been pulled from it, and a producer
\* that pushes into it is waiting
C6_Witness ==
  /\ Len(buffer.items) = MaxSize
  /\ Len(consumed) > 0
  /\ BlockedProducers # {}

\* C7: every item returned by a pull was stored by a push before, no item is
\* returned twice, and so the items consumed never outnumber those produced.
C7_Conservation ==
  /\ \A i \in 1..Len(consumed) : \E j \in 1..Len(produced) : produced[j] = consumed[i]
  /\ \A i, j \in 1..Len(consumed) : i # j => consumed[i] # consumed[j]
  /\ Len(consumed) <= Len(produced)

\* two full batches have been returned, one handed over by tryFlush and one
\* taken by drain, and an item is still held
C7_Witness ==
  /\ Len(consumed) >= 2 * BatchSize
  /\ Len(produced) > Len(consumed)
  /\ lastOp.op = "pullResume"
  /\ \E c \in Consumers : c # lastOp.who /\ ~ret[c].isNull /\ Len(ret[c].batch) > 0

\* C8: once finish() has been called no step stores an item: the accepted
\* items stay what they are and the buffer does not grow.
C8_ClosedAfterFinish ==
  [][buffer.done => (produced' = produced /\ Len(buffer'.items) <= Len(buffer.items))]_vars

\* a producer that was blocked on the full buffer when finish() was called has
\* returned from push without storing its item
C8_Witness ==
  /\ buffer.done
  /\ lastOp.op = "pushResume"
  /\ lastOp.who \in atFinish.producers
  /\ ppc[lastOp.who] = "idle"
  /\ dropped # {}

\* C9: when finish() has been called and the buffer is empty, a call of pull()
\* returns null in the same step, without waiting.
C9_NullAfterDrain ==
  [][\A c \in Consumers :
       (buffer.done /\ Len(buffer.items) = 0 /\ cpc[c] = "idle"
          /\ lastOp'.op = "pull" /\ lastOp'.who = c)
       => (cpc'[c] = "idle" /\ ret'[c] = Null)]_vars

\* after finish() every stored item has been returned and a new call of pull
\* has returned null
C9_Witness ==
  /\ buffer.done
  /\ Len(produced) > 0
  /\ Len(consumed) = Len(produced)
  /\ lastOp.op = "pull"
  /\ ret[lastOp.who] = Null

\* C10: every consumer blocked in pull() when finish() is called returns
\* from that pull eventually.
C10_FinishWakesAll ==
  \A c \in Consumers : (c \in atFinish.consumers) ~> (cpc[c] = "idle")

\* finish() was called with two consumers blocked and an item left in the
\* buffer, and both have returned
C10_Witness ==
  /\ buffer.done
  /\ Cardinality(atFinish.consumers) >= 2
  /\ atFinish.items > 0
  /\ \A c \in atFinish.consumers : cpc[c] = "idle"

Returned == {r \in DOMAIN ftasks : ftasks[r].pc \in {"finished", "released"}}

\* C12: every call of fetchAndSave that has returned has exactly one outcome:
\* it wrote a README file, or it wrote one marker, or it skipped a repository
\* that was done already and wrote nothing.
C12_OneOutcome ==
  \A r \in Returned :
    LET t == ftasks[r]
    IN \/ t.outcome = "file" /\ <<t.origin, t.write[2]>> \in readmes
       \/ t.outcome = "marker" /\ <<t.write[2], t.origin>> \in markers
       \/ /\ t.outcome = "skip"
          /\ t.write = <<>>
          /\ \/ \E f \in readmes : f[1] = t.origin
             \/ \E m \in markers : m[2] = t.origin

\* C13: a call of fetchAndSave for a repository that had a marker, in any
\* bucket, when the call was made sends no request and writes nothing.
C13_MarkerMeansNoRetry ==
  \A r \in DOMAIN ftasks :
    ftasks[r].sawMarker =>
      /\ ftasks[r].pc \notin {"fetch", "mkdir", "write"}
      /\ ~ftasks[r].requested
      /\ ftasks[r].write = <<>>

\* C14: the second of two runs with --offset=0 and the same --limit writes no
\* README file and no marker.
C14_RerunWritesNothing ==
  [][fetchRun = 2 => (readmes' = readmes /\ markers' = markers)]_vars

\* the second run has ended; the first one left a README file, a marker in
\* the bucket of the 404s and a marker in another bucket, and skipped a row
C14_Witness ==
  /\ fetchRun = 2
  /\ fpc = "idle"
  /\ newWrites = {}
  /\ readmes # {}
  /\ \E m \in markers : m[1] = "404_1"
  /\ \E m \in markers : m[1] # "404_1"
  /\ cursor = TableLen

\* C15: no repository has two README files in the output directory.
C15_OneReadmePerRepo ==
  \A o \in Repos : Cardinality({f \in readmes : f[1] = o}) <= 1

\* the fetch tasks that have not completed
Running == {r \in DOMAIN ftasks : ftasks[r].pc \notin {"finished", "released"}}

\* C16: inFlight never holds more than CONCURRENCY tasks, so no more than
\* CONCURRENCY fetch tasks run at a time, and while CONCURRENCY tasks are in
\* flight no task is started.
C16_ConcurrencyBound ==
  /\ [](Cardinality(inFlight) <= CONCURRENCY /\ Cardinality(Running) <= CONCURRENCY)
  /\ [][Cardinality(inFlight) >= CONCURRENCY => DOMAIN ftasks' \subseteq DOMAIN ftasks]_vars

\* the dispatcher waited for a slot, a task was released, and the task of the
\* next row was started: inFlight is at capacity again
C16_Witness ==
  /\ Cardinality(inFlight) = CONCURRENCY
  /\ Cardinality(DOMAIN ftasks) > CONCURRENCY
  /\ Cardinality(Running) = CONCURRENCY
  /\ \E r \in DOMAIN ftasks : ftasks[r].pc = "released"

\* the mappers whose batch is not resolved: submitted and saved, its results
\* not yet all in the vector store
Unresolved == {t \in DOMAIN tasks : tasks[t].pc \in {"poll", "download", "upsert", "budget"}}

\* C18: when the provider answers 402 to the result download of a batch, the
\* process ends with code 0 in that very step, the state file is left as it
\* is, with the entry of that batch and of every other unresolved batch in
\* it, and until the next run no batch is submitted and the state file and
\* the exit code do not change.
C18_BudgetGracefulStop ==
  [][/\ \A t \in DOMAIN tasks :
          ((t \in DOMAIN tasks' /\ tasks[t].pc # "budget" /\ tasks'[t].pc = "budget")
           => (/\ pc' = "exited"
               /\ exitCode' = 0
               /\ stateFile' = stateFile
               /\ Len(batches') = Len(batches)
               /\ \A u \in Unresolved' : tasks'[u].batchId \in DOMAIN stateFile'))
      /\ ((pc = "exited" /\ pc' = "exited")
          => (/\ Len(batches') = Len(batches)
              /\ stateFile' = stateFile
              /\ exitCode' = exitCode))]_vars

\* a 402 has ended the run with code 0 while another batch was unresolved,
\* and the provider has gone on working since
C18_Witness ==
  /\ pc = "exited"
  /\ exitCode = 0
  /\ \E t, u \in DOMAIN tasks :
       /\ tasks[t].pc = "budget"
       /\ tasks[u].pc = "poll"
       /\ {tasks[t].batchId, tasks[u].batchId} \subseteq DOMAIN stateFile
       /\ batches[tasks[u].batchId].status = "completed"

(***************************************************************************)
(* Claims about the realtime pipeline                                      *)
(***************************************************************************)

\* the files loadItems can make an item of, and the ids of their contents
LoadableFiles == {k \in DOMAIN rtFiles : Loadable(rtFiles[k])}
LoadableIds == {sha1ToUuid(Sha1(rtFiles[k].content)) : k \in LoadableFiles}

\* C17, as stated: when a run has ingested the files of the directory, the
\* vector store holds as many points as the files have distinct content
\* hashes.
C17_OnePointPerHash ==
  pc = "done" =>
    Cardinality(qdrant) = Cardinality({Sha1(rtFiles[k].content) : k \in DOMAIN rtFiles})

\* C17, amended: when a run has ingested the files of the directory, the
\* vector store holds exactly one point per distinct content hash of the
\* files that loadItems accepts (a name parseFilename can parse, and a
\* trimmed content of 10 characters or more), whatever the outer chunks and
\* the order of the reads; its id is the first 32 hex digits of the hash.
C17_OnePointPerLoadableHash ==
  pc = "done" =>
    /\ qdrant = LoadableIds
    /\ Cardinality(qdrant)
         = Cardinality({Sha1(rtFiles[k].content) : k \in LoadableFiles})

\* a first run has ingested a directory where a content is in both files of
\* the first outer chunk and in a file of the second, next to a file that
\* is not loaded
C17_Witness ==
  /\ pc = "done"
  /\ run = 1
  /\ {1, 2, 3} \subseteq LoadableFiles
  /\ rtFiles[1].content = rtFiles[2].content
  /\ rtFiles[1].content = rtFiles[3].content
  /\ 4 \notin LoadableFiles
  /\ Cardinality(qdrant) = 1

\* C19: when the realtime provider answers 402 to a worker, the points
\* already in the vector store stay there and the process exits with code
\* 0; the run that follows loads no item that is already in the store, and
\* when it completes every loadable content has its point.
C19_BudgetRealtime ==
  [][/\ \A w \in Consumers :
          ((wpc[w] # "budget" /\ wpc'[w] = "budget")
           => (qdrant' = qdrant /\ pc' = "exited" /\ exitCode' = 0))
      /\ ((Len(stops) > 0 /\ pc = "load" /\ pc' = "pipeline")
          => (stops[Len(stops)] = "budget" => Ids(rtItems') \cap qdrant = {}))
      /\ ((Len(stops) > 0 /\ pc = "pipeline" /\ pc' = "done")
          => (stops[Len(stops)] = "budget" => qdrant' = LoadableIds))]_vars

\* C20: when the embedding call of a worker fails with a status it does not
\* try again on, or after its last retry, the process goes on: it does not
\* exit in that step, and the worker goes on to its next batch.
C20_ErrorsDoNotStop ==
  [][\A w \in Consumers :
       ((wpc[w] # "thrown" /\ wpc'[w] = "thrown")
        => (pc' = "pipeline" /\ exitCode' = -1))]_vars

(***************************************************************************)
(* Claims about the batch pipeline, second part                            *)
(***************************************************************************)

\* the batch b that resumePendingBatches found in the state file has been
\* handled: it is not pending any more; if it failed, expired or was
\* cancelled its entry is gone; if it completed with an output file its
\* results are in the vector store and its entry is there or not as the
\* retention rule says
Handled(b) ==
  LET k == Cardinality(toUpsert(batches[b].results, batches[b].items))
      n == Cardinality(batches[b].items)
  IN /\ batches[b].status \notin {"validating", "in_progress"}
     /\ batches[b].status \in Terminal => b \notin DOMAIN stateFile
     /\ (batches[b].status = "completed" /\ batches[b].file) =>
          /\ toUpsert(batches[b].results, batches[b].items) \subseteq qdrant
          /\ b \in DOMAIN stateFile <=> ~RemovesEntry(k, n)

\* C28: resume precedes submission: a batch is submitted only when every
\* batch that the run found in the state file at its start has been handled.
C28_ResumeBeforeSubmit ==
  [][Len(batches') > Len(batches) => \A b \in Range(batchIds) : Handled(b)]_vars

\* a batch has just been submitted by a run that found batches in the state
\* file: one that it had to poll, and one that has failed
C28_Witness ==
  /\ pc = "chunkMap"
  /\ \E t \in DOMAIN tasks : tasks[t].pc = "save"
  /\ \E b \in Range(batchIds) : b \in polled /\ batches[b].status = "completed"
  /\ \E b \in Range(batchIds) : batches[b].status \in Terminal

\* C29: retained batches are retried: when a run that found a kept entry in
\* the state file has ended, every item of the entry that is not in the
\* vector store has been submitted again, in a batch the run created.
C29_RetainedRetried ==
  (pc = "done" /\ exitCode = 0) =>
    \A b \in Range(batchIds) \cap DOMAIN stateFile :
      \A id \in stateFile[b].items \ qdrant :
        \E b2 \in DOMAIN batches :
          b2 \notin Range(batchIds) /\ id \in batches[b2].items

C21_ParallelResume ==
  [][(/\ fetchRun >= 1
      /\ fetchRun' = fetchRun + 1
      /\ args[fetchRun'] = args[fetchRun]
      /\ args[fetchRun'].offset > 0)
     => (/\ currentId' >= saved
         /\ \A r \in DOMAIN ftasks : r <= saved => r <= currentId')]_vars

\* C22: a call whose sweep ended with a 200 and a body of length L writes
\* the README file when L >= MIN_SIZE and a marker in tooSmall for every
\* L < MIN_SIZE, L = 0 included; once it has returned the artifact is there.
C22_SizeThreshold ==
  \A r \in DOMAIN ftasks :
    ftasks[r].body >= 0 =>
      /\ ftasks[r].write = IF ftasks[r].body >= MIN_SIZE
                           THEN <<"file", ftasks[r].write[2]>>
                           ELSE <<"marker", "tooSmall">>
      /\ ftasks[r].pc \in {"finished", "released"} =>
            IF ftasks[r].body >= MIN_SIZE
            THEN \E b \in Range(BRANCHES) : <<ftasks[r].origin, b>> \in readmes
            ELSE <<"tooSmall", ftasks[r].origin>> \in markers

\* the calls that are in their sweep, or between its end and their return
Sweeping == {r \in DOMAIN ftasks : ftasks[r].pc \in {"fetch", "mkdir", "write"}}

\* C24: the candidates are requested one at a time in the order of BRANCHES
\* (master, then main); nothing is requested after a 200 or a 451; a 200
\* gives the content of its branch and a 451 the status 451; otherwise the
\* sweep ends after the last candidate, and its status is 404 (the marker is
\* in 404_<number of README names>) exactly when every answer was 404.
C24_CandidateSweep ==
  \A r \in Sweeping :
    LET t == ftasks[r]
        a == t.answers
        n == Len(a)
    IN /\ n <= Len(BRANCHES) * README_NAMES
       /\ \A k \in 1..(n - 1) : a[k] \notin {200, 451}
       /\ t.pc = "fetch" => (t.branch = n + 1 /\ (n > 0 => a[n] \notin {200, 451}))
       /\ t.pc \in {"mkdir", "write"} =>
            /\ n >= 1
            /\ a[n] = 200 => (t.write[1] = "file" => t.write[2] = BRANCHES[n])
            /\ a[n] = 451 => t.write = <<"marker", "451">>
            /\ a[n] \notin {200, 451} => n = Len(BRANCHES) * README_NAMES
            /\ (t.write = <<"marker", "404_" \o ToString(README_NAMES)>>)
                 <=> (\A k \in 1..n : a[k] = 404)

\* one sweep has ended with 404 on both branches, another with an error on
\* master and a 404 on main
C24_Witness ==
  \E r, q \in Sweeping :
    /\ ftasks[r].answers = <<404, 404>>
    /\ ftasks[r].write = <<"marker", "404_1">>
    /\ ftasks[q].answers = <<0, 404>>
    /\ ftasks[q].write = <<"marker", "0">>

\* the rows of the slice of the command line: the row numbers in
\* (offset, offset + limit], or all above offset without a limit
Slice ==
  {r \in 1..Len(table) : r > offset /\ (limit # 0 => r <= offset + limit)}

\* the end of the slice: min(offset + limit, total), or total without a limit
SliceEnd ==
  IF limit # 0 /\ offset + limit < Len(table) THEN offset + limit ELSE Len(table)

\* C27: in a run without a saved cursor the rows dispatched are rows of the
\* slice (offset, min(offset + limit, total)], each later than every row
\* dispatched before; the persisted cursor never decreases and never exceeds
\* the end of the slice; when the run ends the rows dispatched are exactly
\* the rows of the slice.
C27_WorkSourceSlice ==
  [][/\ \A r \in DOMAIN ftasks' \ DOMAIN ftasks :
          r \in Slice' /\ \A q \in DOMAIN ftasks : q < r
     /\ saved' >= saved
     /\ saved' <= SliceEnd'
     /\ (fpc = "join" /\ fpc' = "idle") => DOMAIN ftasks' = Slice']_vars

(***************************************************************************)
(* Claims about functions                                                  *)
(***************************************************************************)

\* C23: for every name the fetcher gives to a README file, parseFilename
\* returns the owner and the repository the name was made from.
C23_FilenameRoundTrip ==
  Len(retval) = 1 =>
    retval[1] = [isNull |-> FALSE, owner |-> arg.owner, repo |-> arg.repo]

\* the attempts fetchWithRetry makes on the outcomes arg: up to and including
\* the first one that neither throws nor has a retried status
Attempts ==
  LET final == {k \in 1..MAX_RETRIES : arg[k] \notin {0, 429, 500, 502, 503, 504}}
  IN IF final = {} THEN MAX_RETRIES
     ELSE CHOOSE k \in final : \A j \in final : k <= j

\* C25: fetchWithRetry returns after at most MAX_RETRIES requests, each one
\* with its own selection of a proxy; the result is an error or a response
\* whose status is none of 429, 500, 502, 503, 504; when every attempt ended
\* in one of these statuses or in a network failure the result is an error,
\* and the sweep takes it as status 0.
C25_FetchRetryPolicy ==
  Len(retval) = 1 =>
    LET res == retval[1]
    IN /\ res.requests = Attempts
       /\ res.requests <= MAX_RETRIES
       /\ res.selections = res.requests
       /\ (res.error = <<>>) # (res.response = <<>>)
       /\ res.response # <<>> =>
            res.response[1] \notin {429, 500, 502, 503, 504}
       /\ (\A k \in 1..MAX_RETRIES : arg[k] \in {0, 429, 500, 502, 503, 504}) =>
            /\ res.error # <<>>
            /\ sweep(fetchAndSaveCall(1, 1), seenBySweep(res)).lastStatus = 0
            /\ sweep(fetchAndSaveCall(1, 1), seenBySweep(res)).answers = <<0>>

\* fetchWithRetry has returned after four transient answers and a network
\* failure
C25_Witness ==
  /\ Len(retval) = 1
  /\ arg = <<429, 500, 503, 504, 0>>
  /\ retval[1].requests = MAX_RETRIES
  /\ retval[1].error = <<"FetchError">>

\* the delays of the retries are 2 s, 4 s, ..., never more than 20 s; the
\* call goes on only after a 5xx or a 429, returns on an OK answer and fails
\* on any other answer at once
RetryDelaysAndEnd ==
  /\ \A k \in 1..Len(arg.waits) : arg.waits[k] = 2000 * k /\ arg.waits[k] <= 20000
  /\ Len(retval) = 0 =>
       /\ Len(arg.waits) = arg.requests
       /\ arg.retries = 10 - arg.requests
       /\ arg.requests > 0 => (arg.status >= 500 \/ arg.status = 429)
  /\ Len(retval) = 1 =>
       /\ Len(arg.waits) = arg.requests - 1
       /\ retval[1] = "embeddings" <=> arg.status = 200
       /\ (retval[1] = "Error" /\ (arg.status >= 500 \/ arg.status = 429)) =>
            arg.retries = 0

\* C26 as stated: embedRealtime makes up to 10 attempts while the provider
\* answers 5xx or 429, waits (11 - retriesLeft) x 2 s before each retry and
\* then fails; any other non-OK status fails at once.
C26_TenAttempts ==
  /\ arg.requests <= 10
  /\ RetryDelaysAndEnd

\* C26, amended: embedRealtime makes up to 11 attempts (the first request
\* and up to 10 retries) while the provider answers 5xx or 429, waits
\* (11 - retriesLeft) x 2 s before each retry and then fails; any other
\* non-OK status fails at once.
C26_TenRetries ==
  /\ arg.requests <= 11
  /\ RetryDelaysAndEnd

\* embedRealtime has failed after the last retry, which it made 20 s after
\* the answer before
C26_Witness ==
  /\ retval = <<"Error">>
  /\ arg.status = 503
  /\ arg.requests = 11
  /\ Len(arg.waits) = 10
  /\ arg.waits[10] = 20000

(***************************************************************************)
(* Claims about the AsyncBuffer, second part                               *)
(***************************************************************************)

\* C32: a call of pull() that returns while finish() has not been called
\* returns a batch of exactly batchSize items; a batch of fewer items is
\* returned only after finish(); and pull() never returns the empty array.
C32_FullBatchesBeforeFinish ==
  [][\A c \in Consumers :
       (lastOp'.op \in {"pull", "pullResume"} /\ lastOp'.who = c /\ cpc'[c] = "idle")
       => /\ ret'[c] # Batch(<<>>)
          /\ ~buffer'.done =>
               (~ret'[c].isNull /\ Len(ret'[c].batch) = BatchSize)
          /\ (~ret'[c].isNull /\ Len(ret'[c].batch) < BatchSize) => buffer.done]_vars

\* one consumer has returned from pull() with a full batch and, after
\* finish(), another with the items that were left, fewer than batchSize
C32_Witness ==
  /\ buffer.done
  /\ lastOp.op \in {"pull", "pullResume"}
  /\ ~ret[lastOp.who].isNull
  /\ Len(ret[lastOp.who].batch) \in 1..(BatchSize - 1)
  /\ \E c \in Consumers : ~ret[c].isNull /\ Len(ret[c].batch) = BatchSize

\* s is a run of consecutive items of the push order
IsRun(s) ==
  \E i \in 1..(Len(produced) + 1) :
    /\ i + Len(s) - 1 <= Len(produced)
    /\ s = SubSeq(produced, i, i + Len(s) - 1)

\* the batches removed from the buffer and not yet returned by a pull
HandedOver == {buffer.resolvedConsumers[c] : c \in DOMAIN buffer.resolvedConsumers}

\* C33: items leave the buffer in the order in which they were accepted: the
\* buffer holds the last items accepted, in their order, so that what has
\* been removed (returned by a pull, or handed to a consumer that has not
\* returned yet) is the prefix before them, and every batch is a run of
\* consecutive items of the push order.
C33_FifoDelivery ==
  LET k == Len(produced) - Len(buffer.items)
  IN /\ k >= 0
     /\ buffer.items = SubSeq(produced, k + 1, Len(produced))
     /\ Range(consumed) \cup UNION {Range(b) : b \in HandedOver}
          = {produced[i] : i \in 1..k}
     /\ \A b \in HandedOver : IsRun(b)
     /\ \A c \in Consumers : IsRun(ret[c].batch)

\* both producers have had items accepted, a batch has been returned, another
\* has been handed to a waiting consumer and items are left in the buffer
C33_Witness ==
  /\ Len(consumed) >= BatchSize
  /\ \E b \in HandedOver : Len(b) = BatchSize
  /\ Len(buffer.items) > 0
  /\ \E c \in Consumers : Len(ret[c].batch) = BatchSize

(***************************************************************************)
(* Claims about the realtime pipeline, second part                         *)
(***************************************************************************)

\* the concatenation of the sub-batches
RECURSIVE Flatten(_)
Flatten(subs) == IF Len(subs) = 0 THEN <<>> ELSE Head(subs) \o Flatten(Tail(subs))

\* the total content length of a sub-batch
RECURSIVE TotalChars(_)
TotalChars(sub) ==
  IF Len(sub) = 0 THEN 0 ELSE ContentLen(Head(sub).content) + TotalChars(Tail(sub))

\* C34: when a worker has pulled a batch, the sub-batches it goes on to
\* embed are non-empty, their concatenation is the batch (every item once,
\* in its order), and each has at most BATCH_SIZE items and at most
\* MAX_BATCH_CHARS characters of content.
C34_SubBatchPacking ==
  [][\A w \in Consumers :
       (wpc[w] \in {"new", "pull"} /\ wpc'[w] = "embed")
       => /\ Flatten(wsub'[w]) = ret'[w].batch
          /\ \A i \in DOMAIN wsub'[w] :
               /\ Len(wsub'[w][i]) >= 1
               /\ Len(wsub'[w][i]) <= BatchSize
               /\ TotalChars(wsub'[w][i]) <= MAX_BATCH_CHARS]_vars

\* a worker has pulled a batch of two items that do not fit in one request
\* and has two sub-batches to embed; one of the items was cut at
\* MAX_CONTENT_LEN
C34_Witness ==
  \E w \in Consumers :
    /\ wpc[w] = "embed"
    /\ Len(ret[w].batch) = 2
    /\ Len(wsub[w]) = 2
    /\ \E i \in 1..2 : TrimmedLen(ret[w].batch[i].content) > MAX_BATCH_CHARS

\* C35: whatever the order in which the reads of the files of an outer
\* chunk complete, the items loadItems returns have ids that differ from
\* one another and from the existing ids, contents of 10 characters or more
\* after trim and of MAX_CONTENT_LEN characters or fewer, and their ids are
\* the ids of the files of the chunk that have a name parseFilename parses,
\* a trimmed content of 10 characters or more and an id that is not there
\* yet.
C35_LoadedItems ==
  [][pc = "load" =>
       LET its == IF pc' = "pipeline" THEN rtItems' ELSE <<>>
           eligible == {k \in ChunkFiles(rtChunk) : Loadable(rtFiles[k])}
       IN /\ \A i, j \in DOMAIN its : i # j => its[i].id # its[j].id
          /\ \A i \in DOMAIN its :
               /\ its[i].id \notin existingIds
               /\ TrimmedLen(its[i].content) >= MIN_TRIMMED
               /\ ContentLen(its[i].content) <= MAX_CONTENT_LEN
          /\ {its[i].id : i \in DOMAIN its}
               = {sha1ToUuid(Sha1(rtFiles[k].content)) : k \in eligible} \ existingIds]_vars

\* loadItems has returned one item for an outer chunk of two files with the
\* same content, both with a name that parses
C35_Witness ==
  /\ pc = "pipeline"
  /\ rtNext = 1
  /\ Len(rtItems) = 1
  /\ Cardinality(ChunkFiles(rtChunk)) = 2
  /\ \A k \in ChunkFiles(rtChunk) :
       Loadable(rtFiles[k]) /\ Sha1(rtFiles[k].content) = rtItems[1].content_hash

(***************************************************************************)
(* Claims about the fetcher, third part                                    *)
(***************************************************************************)

\* C36: a fetch task issues the mkdir of a status bucket only if no task of
\* the process has issued one for that bucket, finished or still running;
\* and a task that goes on to write a marker has the directory of its
\* bucket made.
C36_OneMkdirPerBucket ==
  [][\A r \in DOMAIN ftasks' :
       /\ (/\ ftasks'[r].pc = "mkdir"
           /\ (r \notin DOMAIN ftasks \/ ftasks[r].pc # "mkdir"))
          => /\ ftasks'[r].write[2] \notin createdDirs
             /\ \A q \in DOMAIN ftasks :
                  (q # r /\ ftasks[q].pc = "mkdir")
                    => ftasks[q].write[2] # ftasks'[r].write[2]
       /\ (ftasks'[r].pc = "write" /\ ftasks'[r].write[1] = "marker")
          => ftasks'[r].write[2] \in createdDirs']_vars

\* C37: get() returns null exactly when the pool is empty; with two proxies
\* or more it compares two different proxies and returns one whose time is
\* not above the time of the other, so never a proxy whose time is above
\* the time of every other; and report leaves the urls of the pool as they
\* are.
C37_ProxySelection ==
  [][/\ arg'.urls = arg.urls
     /\ Len(arg'.times) = Len(arg.urls)
     /\ Len(retval') = 1 =>
          LET g == retval'[1]
              len == Len(arg.urls)
          IN /\ g.isNull <=> len = 0
             /\ len >= 2 =>
                  /\ g.i1 # g.i2
                  /\ \E k \in {g.i1 + 1, g.i2 + 1} :
                       /\ g.url = arg.urls[k]
                       /\ arg.times[k] <= arg.times[g.i1 + 1]
                       /\ arg.times[k] <= arg.times[g.i2 + 1]
                  /\ \A k \in DOMAIN arg.urls :
                       (\A j \in DOMAIN arg.urls : j # k => arg.times[k] > arg.times[j])
                         => g.url # arg.urls[k]]_vars

\* get() has drawn the same index twice in a pool of three proxies, one of
\* them penalised, and has returned the proxy next to the penalised one
C37_Witness ==
  /\ "urls" \in DOMAIN arg
  /\ Len(arg.urls) = 3
  /\ arg.reports = MaxReports
  /\ Len(retval) = 1
  /\ retval[1].i1 = 2 /\ retval[1].i2 = 0
  /\ arg.times[3] > arg.times[1]
  /\ retval[1].url = arg.urls[1]

\* C38: when a fetch task completes while the dispatcher waits for a free
\* slot, the dispatcher is woken, whichever iteration of the while loop
\* started the task; and the dispatcher is never left waiting for a slot
\* with no task in flight.
C38_DispatcherWoken ==
  [][/\ \A r \in DOMAIN ftasks :
          (fpc = "wait" /\ ftasks[r].pc = "finished" /\ ftasks'[r].pc = "released")
            => woken'
     /\ ~(fpc' = "wait" /\ inFlight' = {} /\ ~woken')]_vars

\* C39: every row up to the cursor of the progress row in the database
\* file has its README file or its marker in the directories (the rows of
\* the restart runs are repositories with a short name, so a row is skipped
\* only when it has one of the two).
C39_CursorCoversFinished ==
  \A r \in DOMAIN table :
    r <= cursor =>
      \/ \E b \in Range(BRANCHES) : <<table[r], b>> \in readmes
      \/ \E m \in markers : m[2] = table[r]

\* Promise.all of runRealtimePipeline was fulfilled and main has gone on
PipelineReturned == pc \in {"load", "done"}

\* C40: a call of runRealtimePipeline ends, by its return or by a call that
\* throws, whatever the order of the steps of the producer and the workers;
\* and when it returns every item it was called with has been upserted once
\* and no more, nothing is left in the buffer and no push was dropped.
C40_PipelineComplete ==
  /\ <>(pc # "pipeline")
  /\ [](PipelineReturned =>
          /\ DOMAIN upserted = Ids(rtItems)
          /\ \A i \in DOMAIN upserted : upserted[i] = 1
          /\ Ids(rtItems) \subseteq qdrant
          /\ Len(buffer.items) = 0
          /\ dropped = {})

\* the pipeline has returned after the producer was made to wait on a full
\* buffer: the items of the long chunk are upserted, once each
C40_Witness ==
  /\ PipelineReturned
  /\ Len(produced) = LongChunkLen
  /\ LongChunkLen > MaxSize + (NumConsumers * BatchSize)
  /\ \A i \in Ids(rtItems) : i \in DOMAIN upserted /\ upserted[i] = 1

(***************************************************************************)
(* Claims about the writes of the batch-state file                         *)
(***************************************************************************)

\* C31: once all writes issued have completed, the file holds the state
\* object as it is in memory; in particular the batch of every chunk worker
\* that has saved its entry and not yet processed its results is in the file.
C31_StateFileIsLatestState ==
  sfWrites = {} =>
    /\ sfFile = sfState
    /\ \A w \in DOMAIN sfpc : sfpc[w] = "poll" => w \in sfFile


====
